---- MODULE Spec2Model ----
(***************************************************************************)
(* Model of the SEO metric interpreter of seoduel (lib/seo-interpreter):   *)
(* interpretSeoMetrics maps a page's extracted facts to a report of five   *)
(* sections, an action summary, an aggregate score and a three-category    *)
(* breakdown.                                                              *)
(***************************************************************************)
EXTENDS Integers, Sequences, FiniteSets, TLC

VARIABLES
    data,            \* the facts passed to the call of interpretSeoMetrics
    pc,              \* where that call stands
    report,          \* the report it returned
    sections,        \* its local sections
    criticalMetris,  \* its local criticalMetris
    actions,         \* its local actions
    seoBreakdown,    \* its local seoBreakdown
    categories,      \* its local categories
    ncalls,          \* calls begun so far in this behaviour
    firstData,       \* the facts of the first call
    firstReport,     \* the report of the first call, once it has returned
    catInput,        \* a metric list handed to calculateCat on its own
    catResult,       \* the category calculateCat returned for it
    text,            \* a text handed to extractKeywords, as its words
    keywords,        \* the keyword list extractKeywords returned for it
    frames,          \* the locals of each of two calls in progress at once
    interleaved,     \* whether a call has taken a step in the middle of the other
    request,         \* the body of a POST to /api/analyze
    rpc,             \* where the POST handler stands
    targetUrl,       \* its targetUrl
    page,            \* what the fetched page holds, once its text is read
    routeFacts,      \* onpage, technical and trust as extracted so far
    response,        \* the response the handler returned
    nfetch,          \* page fetches attempted
    ninterpret,      \* calls of interpretSeoMetrics made
    outcomes,        \* how the page fetch and the sitemap probe ended
    userUrl,         \* the page's state userUrl
    compUrl,         \* the page's state compUrl
    error,           \* the page's state error
    isLoading,       \* the page's state isLoading
    showResults,     \* the page's state showResults
    results,         \* the page's state results
    requests,        \* the two /api/analyze requests of the duel being awaited
    submitted,       \* the urls the last duel's requests were sent with
    orphans          \* requests still pending of duels that have failed

callVars == <<data, pc, report>>
localVars == <<sections, criticalMetris, actions, seoBreakdown, categories>>
histVars == <<ncalls, firstData, firstReport>>
unitVars == <<catInput, catResult, text, keywords>>
concVars == <<frames, interleaved>>
routeVars == <<request, rpc, targetUrl, page, routeFacts, response, nfetch, ninterpret, outcomes>>
pageVars == <<userUrl, compUrl, error, isLoading, showResults, results, requests,
              submitted, orphans>>
sysVars == <<concVars, routeVars, pageVars>>

vars == <<callVars, localVars, histVars, unitVars, sysVars>>

(***************************************************************************)
(* JavaScript values.  The facts object is untyped (data: any), so every   *)
(* value carries its runtime type.  An absent property and a property set  *)
(* to undefined read the same (o[key] === undefined), so an object is a    *)
(* function from its keys to values in which an absent key holds U.        *)
(***************************************************************************)
U == [t |-> "undefined"]
Null == [t |-> "null"]
Bool(b) == [t |-> "boolean", b |-> b]
Num(n) == [t |-> "number", n |-> n]
Obj(f) == [t |-> "object", o |-> f]

\* JavaScript ToBoolean: what `o && ...`, `!x` and `x ? a : b` test.
Truthy(v) ==
    CASE v.t = "undefined" -> FALSE
      [] v.t = "null" -> FALSE
      [] v.t = "boolean" -> v.b
      [] v.t = "number" -> v.n # 0
      [] v.t = "object" -> TRUE

\* JavaScript ToNumber, as the relational operators apply it: null is 0,
\* true is 1, false is 0, undefined and plain objects are NaN.
ToNumber(v) ==
    CASE v.t = "number" -> [nan |-> FALSE, n |-> v.n]
      [] v.t = "boolean" -> [nan |-> FALSE, n |-> IF v.b THEN 1 ELSE 0]
      [] v.t = "null" -> [nan |-> FALSE, n |-> 0]
      [] v.t = "undefined" -> [nan |-> TRUE, n |-> 0]
      [] v.t = "object" -> [nan |-> TRUE, n |-> 0]

\* The comparisons with their bound included: >= for >, <= for <.
JsGe(v, k) == ~ToNumber(v).nan /\ ToNumber(v).n >= k
JsLe(v, k) == ~ToNumber(v).nan /\ ToNumber(v).n <= k

\* v > k and v < k for a numeric literal k: false whenever v converts to NaN.
JsGt(v, k) == ~ToNumber(v).nan /\ ToNumber(v).n > k
JsLt(v, k) == ~ToNumber(v).nan /\ ToNumber(v).n < k

\* The strict comparison made against the next number up.
StrictEqNext(v, k) == v.t = "number" /\ v.n = k + 1

\* v === k for a numeric literal k: no conversion.
StrictEqNum(v, k) == v.t = "number" /\ v.n = k

\* Template-literal conversion `${v}`.
JsString(v) ==
    CASE v.t = "number" -> ToString(v.n)
      [] v.t = "boolean" -> IF v.b THEN "true" ELSE "false"
      [] v.t = "null" -> "null"
      [] v.t = "undefined" -> "undefined"
      [] v.t = "object" -> "[object Object]"

\* o[key] for a value on which property access does not throw.
Prop(o, key) ==
    IF o.t = "object" /\ key \in DOMAIN o.o THEN o.o[key] ELSE U

\* o.key throws a TypeError exactly when o is null or undefined.
PropThrows(o) == o.t \in {"null", "undefined"}

\* The reducer without its test for undefined: (o, key) => (o ? o[key] : defaultValue)
getStepUnchecked(o, key, defaultValue) ==
    IF Truthy(o) THEN Prop(o, key) ELSE defaultValue

\* The reducer of get: (o, key) => (o && o[key] !== undefined ? o[key] : defaultValue)
getStep(o, key, defaultValue) ==
    IF Truthy(o) /\ Prop(o, key) # U THEN Prop(o, key) ELSE defaultValue

RECURSIVE getReduce(_, _, _)
getReduce(o, path, defaultValue) ==
    IF path = <<>> THEN o
    ELSE getReduce(getStep(o, Head(path), defaultValue), Tail(path), defaultValue)

\* get(obj, path, defaultValue); path is the dotted string already split.
get(obj, path, defaultValue) == getReduce(obj, path, defaultValue)

Metric(title, status, plainExplanation, whyItMatters, action) ==
    [title |-> title, status |-> status, plainExplanation |-> plainExplanation,
     whyItMatters |-> whyItMatters, action |-> action]

(***************************************************************************)
(* 1. Search visibility                                                    *)
(***************************************************************************)
TitleRule(d) ==
    LET titleLen == get(d, <<"onpage", "title", "length">>, Num(0))
        titleExists == get(d, <<"onpage", "title", "exists">>, Bool(FALSE))
    IN  IF ~Truthy(titleExists) THEN
            Metric("Page Title", "critical",
                   "Your page doesn't have a title defined in the code.",
                   "Google uses this title to show your page in search results. Without it, you look invisible or broken.",
                   "Add a clear, short title between 30 and 60 characters.")
        ELSE IF JsGt(titleLen, 60) THEN
            Metric("Title Length", "critical",
                   "Your title is too long (" \o JsString(titleLen) \o " characters).",
                   "Google will cut off the end of long titles, making your link look messy and unprofessional to searchers.",
                   "Shorten the title to under 60 characters.")
        ELSE IF JsLt(titleLen, 30) THEN
            Metric("Title Length", "warning",
                   "Your title is a bit too short.",
                   "Short titles don't give Google enough context to rank you for different search terms.",
                   "Add a few more descriptive words or your brand name to the title.")
        ELSE
            Metric("Title Length", "good",
                   "Your title length is perfect.",
                   "It will display fully on most screens, ensuring people see your full message.",
                   "Keep it as is.")

MetaRule(d) ==
    LET metaExists == get(d, <<"onpage", "meta", "exists">>, Bool(FALSE))
        metaLen == get(d, <<"onpage", "meta", "length">>, Num(0))
    IN  IF ~Truthy(metaExists) THEN
            Metric("Search Snippet (Meta)", "critical",
                   "There is no description for this page in the search results.",
                   "Google has to guess what your page is about, which often leads to less clicks from potential visitors.",
                   "Add a compelling description of 120-160 characters.")
        ELSE IF JsLt(metaLen, 100) \/ JsGt(metaLen, 160) THEN
            Metric("Search Snippet (Meta)", "warning",
                   "The description of your page is either too short or too long.",
                   "If it's too long, it gets cut off. If it's too short, it's not convincing enough for users to click.",
                   "Aim for a length between 120 and 160 characters.")
        ELSE
            Metric("Search Snippet (Meta)", "good",
                   "Your search result description is well-balanced.",
                   "It helps you stand out and encourages more people to click on your link.",
                   "No changes needed.")

OgRule(d) ==
    LET hasOg == Truthy(get(d, <<"onpage", "og", "hasOg">>, Bool(FALSE)))
    IN  Metric("Social Media Preview",
               IF hasOg THEN "good" ELSE "warning",
               IF hasOg THEN "Social media preview signals are present."
                        ELSE "Missing specific signals for social media sharing.",
               "When people share your link on Facebook or Twitter, these signals ensure it looks beautiful with an image and title.",
               IF hasOg THEN "Check if the images look good."
                        ELSE "Add 'Open Graph' tags to control how your site looks on social media.")

searchVisibility(d) == <<TitleRule(d), MetaRule(d), OgRule(d)>>

(***************************************************************************)
(* 2. Content strength                                                     *)
(***************************************************************************)
H1Rule(d) ==
    LET h1Count == get(d, <<"onpage", "headings", "h1Count">>, Num(0))
    IN  IF StrictEqNum(h1Count, 0) THEN
            Metric("Main Headline (H1)", "critical",
                   "Google can't quickly understand what this specific page is about because the main headline is missing.",
                   "The H1 is the primary signal to Google and visitors about the page's topic. Without it, your message is lost.",
                   "Add one clear main headline (H1 tag) to the top of the page.")
        ELSE IF JsGt(h1Count, 1) THEN
            Metric("Main Headlines (H1)", "warning",
                   "You have multiple main headlines on this page.",
                   "It's like reading a book with two different titles on the same cover; it confuses Google about your main focus.",
                   "Keep only one main headline and turn the others into sub-headlines.")
        ELSE
            Metric("Main Headline (H1)", "good",
                   "You have a clear, single main headline.",
                   "Google knows exactly what the topic of this page is.",
                   "Good job, no action needed.")

\* The content-depth rule with its two thresholds tested in the other order.
WordCountRuleSwapped(d) ==
    LET wc == get(d, <<"onpage", "content", "wordCount">>, Num(0))
    IN  IF JsLt(wc, 600) THEN
            Metric("Content Depth", "warning",
                   "The content is okay, but it might not be enough to beat competitors.",
                   "The top results in Google usually have between 1000 and 2000 words.",
                   "Consider adding more value or answering common questions people have about this topic.")
        ELSE IF JsLt(wc, 300) THEN
            Metric("Content Depth", "critical",
                   "This page is very 'thin' with only " \o JsString(wc) \o " words.",
                   "Google prefers pages that provide thorough answers. Short pages rarely rank on the first page.",
                   "Expand your content with more helpful details, examples, or data.")
        ELSE
            Metric("Content Depth", "good",
                   "You have a solid amount of content on this page.",
                   "This shows Google you are covering the topic seriously.",
                   "Ensure the content stays updated and relevant.")

WordCountRule(d) ==
    LET wc == get(d, <<"onpage", "content", "wordCount">>, Num(0))
    IN  IF JsLt(wc, 300) THEN
            Metric("Content Depth", "critical",
                   "This page is very 'thin' with only " \o JsString(wc) \o " words.",
                   "Google prefers pages that provide thorough answers. Short pages rarely rank on the first page.",
                   "Expand your content with more helpful details, examples, or data.")
        ELSE IF JsLt(wc, 600) THEN
            Metric("Content Depth", "warning",
                   "The content is okay, but it might not be enough to beat competitors.",
                   "The top results in Google usually have between 1000 and 2000 words.",
                   "Consider adding more value or answering common questions people have about this topic.")
        ELSE
            Metric("Content Depth", "good",
                   "You have a solid amount of content on this page.",
                   "This shows Google you are covering the topic seriously.",
                   "Ensure the content stays updated and relevant.")

\* const altStats = get(data, 'onpage.images.altStats', { total: 0, missing: 0 })
altStatsOf(d) ==
    get(d, <<"onpage", "images", "altStats">>,
        Obj([total |-> Num(0), missing |-> Num(0)]))

\* altStats.total is read first and unguarded: a TypeError when altStats is
\* null (get passes null through, since null !== undefined).
AltRuleThrows(d) == PropThrows(altStatsOf(d))

\* The image rule with its second test dropped: a good result is pushed
\* even when there are no images.
AltRuleAlways(d) ==
    LET altStats == altStatsOf(d)
        total == Prop(altStats, "total")
        missing == Prop(altStats, "missing")
    IN  IF JsGt(total, 0) /\ JsGt(missing, 0) THEN
            << Metric("Image accessibility", "warning",
                      JsString(missing) \o " images on your site have no text descriptions.",
                      "Google cannot 'see' images. It uses these descriptions to understand what's in the picture and rank you in Image Search.",
                      "Add descriptive 'alt text' to every image on your page.") >>
        ELSE
            << Metric("Image accessibility", "good",
                      "All your images have text descriptions.",
                      "This helps blind users and gives Google more keywords to rank you for.",
                      "Perfect. No action needed.") >>

\* The results the image rule pushes: none, or one.  Only evaluated when the
\* property reads do not throw.
AltRule(d) ==
    LET altStats == altStatsOf(d)
        total == Prop(altStats, "total")
        missing == Prop(altStats, "missing")
    IN  IF JsGt(total, 0) /\ JsGt(missing, 0) THEN
            << Metric("Image accessibility", "warning",
                      JsString(missing) \o " images on your site have no text descriptions.",
                      "Google cannot 'see' images. It uses these descriptions to understand what's in the picture and rank you in Image Search.",
                      "Add descriptive 'alt text' to every image on your page.") >>
        ELSE IF JsGt(total, 0) THEN
            << Metric("Image accessibility", "good",
                      "All your images have text descriptions.",
                      "This helps blind users and gives Google more keywords to rank you for.",
                      "Perfect. No action needed.") >>
        ELSE << >>

contentStrength(d) == <<H1Rule(d), WordCountRule(d)>> \o AltRule(d)

(***************************************************************************)
(* 3. Technical health                                                     *)
(***************************************************************************)
HttpsRule(d) ==
    LET isHttps == Truthy(get(d, <<"technical", "https">>, Bool(FALSE)))
    IN  Metric("Connection Security",
               IF isHttps THEN "good" ELSE "critical",
               IF isHttps THEN "Your connection is secure."
                          ELSE "Your website is flagged as 'Not Secure' by Google.",
               "Google downranks non-secure websites and browsers show a scary warning to your visitors.",
               IF isHttps THEN "No action needed."
                          ELSE "Enable HTTPS (SSL certificate) immediately.")

MobileRule(d) ==
    LET isMobile == Truthy(get(d, <<"technical", "mobileFriendly">>, Bool(FALSE)))
    IN  Metric("Mobile Friendliness",
               IF isMobile THEN "good" ELSE "critical",
               IF isMobile THEN "Your site is built for mobile users."
                           ELSE "Your site might be hard to use on a phone.",
               "Over 60% of searches happen on mobile. Google uses the mobile version of your site to rank you.",
               IF isMobile THEN "No action needed."
                           ELSE "Check your 'viewport' settings and ensure text isn't too small.")

\* The indexing rule reading the raw flag as if it meant "indexable".
IndexRuleInverted(d) ==
    LET noIndex == ~Truthy(get(d, <<"technical", "noindex">>, Bool(FALSE)))
    IN  Metric("Search Visibility Lock",
               IF noIndex THEN "critical" ELSE "good",
               IF noIndex THEN "Your site is currently hidden from Google."
                          ELSE "Google is allowed to show your site in results.",
               "If this is 'on', you will NEVER rank in Google, no matter how good your content is.",
               IF noIndex THEN "Remove the 'noindex' tag from your code."
                          ELSE "Keep it as is.")

IndexRule(d) ==
    LET noIndex == Truthy(get(d, <<"technical", "noindex">>, Bool(FALSE)))
    IN  Metric("Search Visibility Lock",
               IF noIndex THEN "critical" ELSE "good",
               IF noIndex THEN "Your site is currently hidden from Google."
                          ELSE "Google is allowed to show your site in results.",
               "If this is 'on', you will NEVER rank in Google, no matter how good your content is.",
               IF noIndex THEN "Remove the 'noindex' tag from your code."
                          ELSE "Keep it as is.")

SitemapRule(d) ==
    LET hasSitemap == Truthy(get(d, <<"technical", "sitemap">>, Bool(FALSE)))
    IN  Metric("Google's Map (Sitemap)",
               IF hasSitemap THEN "good" ELSE "warning",
               IF hasSitemap THEN "You have a map for Google to follow."
                             ELSE "Google doesn't have an easy sitemap to find all your pages.",
               "A sitemap helps Google find and crawl and index all your important pages faster.",
               IF hasSitemap THEN "No action needed."
                             ELSE "Create a sitemap.xml file and submit it to Google.")

technicalHealth(d) == <<HttpsRule(d), MobileRule(d), IndexRule(d), SitemapRule(d)>>

(***************************************************************************)
(* 4. Trust & credibility                                                  *)
(***************************************************************************)
LinksRule(d) ==
    LET internalCount == get(d, <<"trust", "internalLinks">>, Num(0))
    IN  Metric("Topic Connection",
               IF JsGt(internalCount, 5) THEN "good" ELSE "warning",
               IF JsGt(internalCount, 0)
                   THEN "You have " \o JsString(internalCount) \o " internal links."
                   ELSE "No links to other pages on your site found.",
               "Linking to your other pages helps Google understand your expertise and spreads 'ranking power' throughout your site.",
               IF JsGt(internalCount, 5) THEN "Keep linking to relevant pages."
                                         ELSE "Add links to 5-10 other relevant pages on your website.")

SchemaRule(d) ==
    LET hasSchema == Truthy(get(d, <<"trust", "hasSchema">>, Bool(FALSE)))
    IN  Metric("Rich Search Results",
               IF hasSchema THEN "good" ELSE "warning",
               IF hasSchema THEN "You are using special code to speak to Google."
                            ELSE "You aren't using 'Schema' code on this page.",
               "This code helps you get 'rich results' like star ratings, prices, or FAQ snippets that stand out.",
               IF hasSchema THEN "Ensure the data is accurate."
                            ELSE "Add 'LD+JSON' schema markup for your business or product.")

trustCredibility(d) == <<LinksRule(d), SchemaRule(d)>>

(***************************************************************************)
(* 5. Growth signals                                                       *)
(***************************************************************************)
\* Growth signals with the domain-authority result penalised instead of
\* left unknown.
growthSignalsPenalised ==
    << Metric("Other Sites Recommending You", "unknown",
              "We couldn't determine the number of websites linking to you.",
              "Getting links from other sites is the #1 way to build authority and outrank big competitors.",
              "Register for a free service like Google Search Console to see your backlinks."),
       Metric("Domain Authority", "warning",
              "Domain age and history could not be verified.",
              "Older, well-established sites often have an easier time ranking than brand new ones.",
              "Focus on creating high-quality, unique content to build your site's reputation over time.") >>

growthSignals ==
    << Metric("Other Sites Recommending You", "unknown",
              "We couldn't determine the number of websites linking to you.",
              "Getting links from other sites is the #1 way to build authority and outrank big competitors.",
              "Register for a free service like Google Search Console to see your backlinks."),
       Metric("Domain Authority", "unknown",
              "Domain age and history could not be verified.",
              "Older, well-established sites often have an easier time ranking than brand new ones.",
              "Focus on creating high-quality, unique content to build your site's reputation over time.") >>

Section(name, metrics) == [name |-> name, metrics |-> metrics]

\* The five sections in the order they are pushed.
buildSections(d) ==
    << Section("Search visibility", searchVisibility(d)),
       Section("Content strength", contentStrength(d)),
       Section("Technical health", technicalHealth(d)),
       Section("Trust & credibility", trustCredibility(d)),
       Section("Growth signals", growthSignals) >>

\* sections.forEach(s => s.metrics.forEach(m => ...)): every result, in
\* section order and then in push order within a section.
RECURSIVE allMetrics(_)
allMetrics(secs) ==
    IF secs = <<>> THEN <<>> ELSE Head(secs).metrics \o allMetrics(Tail(secs))

(***************************************************************************)
(* Summary logic                                                           *)
(***************************************************************************)
IsCritical(m) == m.status = "critical"

collectCritical(secs) == SelectSeq(allMetrics(secs), IsCritical)

\* The slice taking one element too many.
slice5(s) == SubSeq(s, 1, IF Len(s) < 5 THEN Len(s) ELSE 5)

\* criticalMetris.slice(0, 4)
slice4(s) == SubSeq(s, 1, IF Len(s) < 4 THEN Len(s) ELSE 4)

FallbackAction == "Focus on getting more high-quality links from other websites."

summaryActions(crit) ==
    LET acts == [i \in 1..Len(slice4(crit)) |-> slice4(crit)[i].action]
    IN  IF Len(acts) = 0 THEN <<FallbackAction>> ELSE acts

(***************************************************************************)
(* SEO breakdown logic                                                     *)
(***************************************************************************)
\* clamp with the clamping left out.
clampNone(n, min, max) == n

\* Math.max(min, Math.min(max, n))
clamp(n, min, max) ==
    LET m == IF max < n THEN max ELSE n
    IN  IF min > m THEN min ELSE m

\* getPriority with the two thresholds compared the wrong way round.
getPrioritySwapped(score) ==
    IF score < 70 THEN "critical"
    ELSE IF score < 30 THEN "warning"
    ELSE "good"

getPriority(score) ==
    IF score < 30 THEN "critical"
    ELSE IF score < 70 THEN "warning"
    ELSE "good"

\* Math.round(num / den) for num >= 0, den > 0: the nearest integer, a half
\* rounding up.  Of the quotients formed here, passed / total * 100 falls on
\* a half only when total is a multiple of 8, where passed / total is exact
\* in binary, and total / count (a multiple of 10 over 13 or 14) never does,
\* so integer arithmetic agrees with the floating-point result.
roundDiv(num, den) == (2 * num + den) \div (2 * den)

\* The passed filter also letting unknown results through.
IsGoodOrUnknown(m) == m.status \in {"good", "unknown"}

IsGood(m) == m.status = "good"

calculateCat(metrics, label, description) ==
    LET total == Len(metrics)
        passed == Len(SelectSeq(metrics, IsGood))
        score == IF total > 0 THEN clamp(roundDiv(passed * 100, total), 15, 95)
                              ELSE 15
    IN  [score |-> score, label |-> label, description |-> description,
         passed |-> passed, total |-> total, priority |-> getPriority(score)]

\* The breakdown as first built (lines 337-346), its summary still blank.
buildBreakdown(secs) ==
    [onPage |-> calculateCat(secs[1].metrics \o secs[2].metrics,
                             "On-page SEO", "Content and keyword optimization"),
     technical |-> calculateCat(secs[3].metrics,
                                "Technical SEO", "Speed, crawlability, and indexability"),
     authority |-> calculateCat(secs[4].metrics \o secs[5].metrics,
                                "Authority", "Links, trust, and domain strength"),
     summary |-> [weakestArea |-> "", strongestArea |-> "", recommendedFocus |-> ""]]

\* The comparison array, in its fixed order.
buildCategories(bd) ==
    << [key |-> "onPage", score |-> bd.onPage.score],
       [key |-> "technical", score |-> bd.technical.score],
       [key |-> "authority", score |-> bd.authority.score] >>

\* The comparator also moving b before a on equal scores.
ComesAfterOrTied(a, b) == a.score - b.score >= 0

\* The comparator (a, b) => a.score - b.score puts b before a only when
\* a.score > b.score.
ComesAfter(a, b) == a.score - b.score > 0

\* Array.prototype.sort is stable: each element is placed after every
\* earlier element that does not compare greater than it.
RECURSIVE insertSorted(_, _)
insertSorted(sorted, x) ==
    IF sorted = <<>> THEN <<x>>
    ELSE IF ComesAfter(Head(sorted), x) THEN <<x>> \o sorted
    ELSE <<Head(sorted)>> \o insertSorted(Tail(sorted), x)

RECURSIVE sortFrom(_, _)
sortFrom(sorted, rest) ==
    IF rest = <<>> THEN sorted
    ELSE sortFrom(insertSorted(sorted, Head(rest)), Tail(rest))

sortCategories(cats) == sortFrom(<<>>, cats)

\* The summary with strongestArea found by score: the first entry of the
\* sorted list that has the highest score.
withSummaryByScore(bd, sortedCats) ==
    LET first == CHOOSE i \in 1..3 :
                    /\ sortedCats[i].score = sortedCats[3].score
                    /\ \A j \in 1..(i - 1) : sortedCats[j].score # sortedCats[3].score
    IN  [bd EXCEPT !.summary = [weakestArea |-> sortedCats[1].key,
                                strongestArea |-> sortedCats[first].key,
                                recommendedFocus |-> sortedCats[1].key]]

\* The summary written together with the sorted list stored back over the
\* category records, in its sorted order.
withSummaryStored(bd, sortedCats) ==
    [bd EXCEPT !.onPage = bd[sortedCats[1].key],
               !.technical = bd[sortedCats[2].key],
               !.authority = bd[sortedCats[3].key],
               !.summary = [weakestArea |-> sortedCats[1].key,
                            strongestArea |-> sortedCats[3].key,
                            recommendedFocus |-> sortedCats[1].key]]

\* The summary with strongestArea read from the middle of the sorted list.
withSummaryMiddle(bd, sortedCats) ==
    [bd EXCEPT !.summary = [weakestArea |-> sortedCats[1].key,
                            strongestArea |-> sortedCats[2].key,
                            recommendedFocus |-> sortedCats[1].key]]

\* Lines 356-358: the summary read off the sorted list.
withSummary(bd, sortedCats) ==
    [bd EXCEPT !.summary = [weakestArea |-> sortedCats[1].key,
                            strongestArea |-> sortedCats[3].key,
                            recommendedFocus |-> sortedCats[1].key]]

(***************************************************************************)
(* Aggregate score                                                         *)
(***************************************************************************)
\* statusPoints with the points of warning and good exchanged.
statusPointsWarningFirst(status) ==
    CASE status = "good" -> 50
      [] status = "warning" -> 100
      [] status = "critical" -> 0
      [] OTHER -> 70

\* statusPoints with the unknown branch scoring nothing.
statusPointsUnknownZero(status) ==
    IF status = "good" THEN 100
    ELSE IF status = "warning" THEN 50
    ELSE 0

statusPoints(status) ==
    IF status = "good" THEN 100
    ELSE IF status = "warning" THEN 50
    ELSE IF status = "critical" THEN 0
    ELSE 70

RECURSIVE sumPoints(_)
sumPoints(ms) ==
    IF ms = <<>> THEN 0 ELSE statusPoints(Head(ms).status) + sumPoints(Tail(ms))

\* count is 13 or 14 for the sections the interpreter builds, so the
\* division is defined there.
calculateAggregatedScore(secs) ==
    LET total == sumPoints(allMetrics(secs))
        count == Len(allMetrics(secs))
    IN  roundDiv(total, count)

makeReport(secs, acts, bd) ==
    [sections |-> secs, summary |-> [actions |-> acts],
     score |-> calculateAggregatedScore(secs), seoBreakdown |-> bd]

\* The whole call: either a TypeError escapes, or the report is returned.
interpretThrows(d) == AltRuleThrows(d)

interpretSeoMetrics(d) ==
    LET secs == buildSections(d)
        bd == buildBreakdown(secs)
    IN  makeReport(secs,
                   summaryActions(collectCritical(secs)),
                   withSummary(bd, sortCategories(buildCategories(bd))))

(***************************************************************************)
(* Input facts.  Each sub-record is drawn from a small set that reaches    *)
(* every branch of the rule reading it: the shapes the extractor produces  *)
(* (route.ts analyzeOnPage, analyzeTechnical, analyzeTrust) and shapes     *)
(* with the sub-record or the field absent or null.                        *)
(***************************************************************************)
\* A page has no images or MaxImages of them, any number of which lack alt
\* text.
MaxImages == 1

TitleObjs ==
    {U} \cup {Obj([exists |-> Bool(TRUE), length |-> Num(n)]) : n \in {29, 30, 61}}

MetaObjs ==
    {Obj([exists |-> Bool(FALSE), length |-> Num(0)])}
    \cup {Obj([exists |-> Bool(TRUE), length |-> Num(n)]) : n \in {99, 100}}

OgObjs == {U, Obj([hasOg |-> Bool(TRUE)])}

HeadingObjs == {Obj([h1Count |-> Num(n)]) : n \in 0..2}

ContentObjs == {Obj([wordCount |-> Num(n)]) : n \in {299, 300, 600}}

AltStatsVals ==
    {U, Null}
    \cup {Obj([total |-> Num(tm[1]), missing |-> Num(tm[2])]) :
            tm \in {x \in {0, MaxImages} \X (0..MaxImages) : x[2] <= x[1]}}

Flags == {U, Bool(TRUE)}

OnpageObjs ==
    {Obj([title |-> ti, meta |-> me, og |-> og, headings |-> he, content |-> co,
          images |-> Obj([altStats |-> al])]) :
        ti \in TitleObjs, me \in MetaObjs, og \in OgObjs, he \in HeadingObjs,
        co \in ContentObjs, al \in AltStatsVals}

TechnicalObjs ==
    {Obj([https |-> h, mobileFriendly |-> m, noindex |-> n, sitemap |-> s]) :
        h \in Flags, m \in Flags, n \in {Bool(FALSE), Bool(TRUE)}, s \in Flags}

TrustObjs ==
    {Obj([internalLinks |-> Num(n), hasSchema |-> sc]) : n \in {5, 6}, sc \in Flags}

\* Facts with whole parts missing: interpretSeoMetrics({}), (null), (undefined)
\* and a record whose three sub-records are null.
SparseFacts ==
    {Obj(<<>>), Null, U, Obj([onpage |-> Null, technical |-> Null, trust |-> Null])}

Facts ==
    {Obj([onpage |-> o, technical |-> t, trust |-> r]) :
        o \in OnpageObjs, t \in TechnicalObjs, r \in TrustObjs}
    \cup SparseFacts

NoReport == [none |-> TRUE]

(***************************************************************************)
(* One call of interpretSeoMetrics, as a whole.                            *)
(***************************************************************************)
NoLocals ==
    /\ sections = <<>>
    /\ criticalMetris = <<>>
    /\ actions = <<>>
    /\ seoBreakdown = NoReport
    /\ categories = <<>>

NoUnit == catInput = <<>> /\ catResult = NoReport /\ text = <<>> /\ keywords = NoReport

NoConc == frames = <<>> /\ interleaved = FALSE

NoResponse == [status |-> "none"]

NoOutcomes == [fetch |-> "none", sitemap |-> "none"]

NoRoute ==
    /\ request = [json |-> "none"]
    /\ rpc = "idle"
    /\ targetUrl = ""
    /\ page = U
    /\ routeFacts = U
    /\ response = NoResponse
    /\ nfetch = 0
    /\ ninterpret = 0
    /\ outcomes = NoOutcomes

NoRequest == [state |-> "none", score |-> 0]

NoRequests == [user |-> NoRequest, comp |-> NoRequest]

NoPage ==
    /\ userUrl = ""
    /\ compUrl = ""
    /\ error = FALSE
    /\ isLoading = FALSE
    /\ showResults = FALSE
    /\ results = Null
    /\ requests = NoRequests
    /\ submitted = [user |-> "", comp |-> ""]
    /\ orphans = 0

NoSys == NoConc /\ NoRoute /\ NoPage

Init ==
    /\ data \in Facts
    /\ pc = "call"
    /\ report = NoReport
    /\ NoLocals
    /\ ncalls = 1
    /\ firstData = data
    /\ firstReport = NoReport
    /\ NoUnit
    /\ NoSys

Interpret ==
    /\ pc = "call"
    /\ IF interpretThrows(data)
         THEN pc' = "thrown" /\ report' = report
         ELSE pc' = "returned" /\ report' = interpretSeoMetrics(data)
    /\ UNCHANGED <<data, localVars, histVars, unitVars, sysVars>>

Next == Interpret

Spec == Init /\ [][Next]_vars

Returned == pc = "returned"

(***************************************************************************)
(* calculateCat on its own, as the pure function it is: applied to metric  *)
(* lists of every length up to MaxMetrics and every mix of statuses.       *)
(***************************************************************************)
MaxMetrics == 9

Statuses == <<"good", "warning", "critical", "unknown">>

\* n results of one status; calculateCat reads nothing but the status.
Repeat(n, st) == [i \in 1..n |-> Metric("", st, "", "", "")]

MetricLists ==
    {Repeat(c[1], Statuses[1]) \o Repeat(c[2], Statuses[2])
       \o Repeat(c[3], Statuses[3]) \o Repeat(c[4], Statuses[4]) :
        c \in {x \in (0..MaxMetrics) \X (0..MaxMetrics) \X (0..MaxMetrics) \X (0..MaxMetrics) :
                   x[1] + x[2] + x[3] + x[4] <= MaxMetrics}}

InitCat ==
    /\ catInput \in MetricLists
    /\ catResult = NoReport
    /\ NoSys
    /\ text = <<>>
    /\ keywords = NoReport
    /\ pc = "unit"
    /\ data = U
    /\ report = NoReport
    /\ NoLocals
    /\ ncalls = 0
    /\ firstData = U
    /\ firstReport = NoReport

ApplyCat ==
    /\ pc = "unit"
    /\ catResult' = calculateCat(catInput, "Category", "A group of results")
    /\ pc' = "unitDone"
    /\ UNCHANGED <<data, report, catInput, text, keywords, localVars, histVars, sysVars>>

\* Categories as calculateCat returns them for arbitrary lists, and as they
\* stand in the reports of whole calls.
SpecCat == (InitCat \/ Init) /\ [][ApplyCat \/ Interpret]_vars

(***************************************************************************)
(* Calls of interpretSeoMetrics one after another, each run statement      *)
(* group by statement group on its local state.  The locals of a finished  *)
(* call are left as they were: a new call must not read them.              *)
(***************************************************************************)
MaxCalls == 3

SeqOnpageObjs ==
    {Obj([title |-> Obj([exists |-> Bool(TRUE), length |-> Num(61)]),
          meta |-> Obj([exists |-> Bool(TRUE), length |-> Num(100)]),
          og |-> Obj([hasOg |-> Bool(TRUE)]),
          headings |-> Obj([h1Count |-> Num(1)]),
          content |-> Obj([wordCount |-> Num(299)]),
          images |-> Obj([altStats |-> al])]) :
        al \in {Null, Obj([total |-> Num(MaxImages), missing |-> Num(0)]),
                Obj([total |-> Num(MaxImages), missing |-> Num(MaxImages)])}}

SeqTechnicalObjs ==
    {Obj([https |-> f, mobileFriendly |-> f, noindex |-> Bool(FALSE), sitemap |-> f]) :
        f \in Flags}

SeqFacts ==
    {Obj([onpage |-> o, technical |-> t,
          trust |-> Obj([internalLinks |-> Num(6), hasSchema |-> Bool(TRUE)])]) :
        o \in SeqOnpageObjs, t \in SeqTechnicalObjs}
    \cup SparseFacts

\* sections kept across calls, as a module-level array would be.
keepSections(old) == old

\* const sections: SeoSection[] = [] -- a new array in every call.
newSections(old) == <<>>

InitSeq ==
    /\ data \in SeqFacts
    /\ pc = "entry"
    /\ report = NoReport
    /\ NoLocals
    /\ ncalls = 1
    /\ firstData = data
    /\ firstReport = NoReport
    /\ NoUnit
    /\ NoSys

Enter ==
    /\ pc = "entry"
    /\ sections' = newSections(sections)
    /\ pc' = "searchVisibility"
    /\ UNCHANGED <<data, report, criticalMetris, actions, seoBreakdown, categories,
                   histVars, unitVars, sysVars>>

PushSection(at, name, metrics, then) ==
    /\ pc = at
    /\ sections' = Append(sections, Section(name, metrics))
    /\ pc' = then
    /\ UNCHANGED <<data, report, criticalMetris, actions, seoBreakdown, categories,
                   histVars, unitVars, sysVars>>

PushSearchVisibility ==
    PushSection("searchVisibility", "Search visibility", searchVisibility(data),
                "contentStrength")

PushContentStrength ==
    /\ ~AltRuleThrows(data)
    /\ PushSection("contentStrength", "Content strength", contentStrength(data),
                   "technicalHealth")

\* The TypeError of altStats.total leaves the call; nothing catches it here.
ThrowContentStrength ==
    /\ pc = "contentStrength"
    /\ AltRuleThrows(data)
    /\ pc' = "thrown"
    /\ UNCHANGED <<data, report, localVars, histVars, unitVars, sysVars>>

PushTechnicalHealth ==
    PushSection("technicalHealth", "Technical health", technicalHealth(data),
                "trustCredibility")

PushTrustCredibility ==
    PushSection("trustCredibility", "Trust & credibility", trustCredibility(data),
                "growthSignals")

PushGrowthSignals ==
    PushSection("growthSignals", "Growth signals", growthSignals, "summary")

Summarize ==
    /\ pc = "summary"
    /\ criticalMetris' = collectCritical(sections)
    /\ actions' = summaryActions(criticalMetris')
    /\ pc' = "breakdown"
    /\ UNCHANGED <<data, report, sections, seoBreakdown, categories, histVars, unitVars, sysVars>>

Breakdown ==
    /\ pc = "breakdown"
    /\ seoBreakdown' = buildBreakdown(sections)
    /\ categories' = buildCategories(seoBreakdown')
    /\ pc' = "sort"
    /\ UNCHANGED <<data, report, sections, criticalMetris, actions, histVars, unitVars, sysVars>>

SortCategories ==
    /\ pc = "sort"
    /\ categories' = sortCategories(categories)
    /\ pc' = "setSummary"
    /\ UNCHANGED <<data, report, sections, criticalMetris, actions, seoBreakdown,
                   histVars, unitVars, sysVars>>

SetSummary ==
    /\ pc = "setSummary"
    /\ seoBreakdown' = withSummary(seoBreakdown, categories)
    /\ pc' = "return"
    /\ UNCHANGED <<data, report, sections, criticalMetris, actions, categories,
                   histVars, unitVars, sysVars>>

Return ==
    /\ pc = "return"
    /\ report' = makeReport(sections, actions, seoBreakdown)
    /\ firstReport' = IF ncalls = 1 THEN report' ELSE firstReport
    /\ pc' = "returned"
    /\ UNCHANGED <<data, localVars, ncalls, firstData, unitVars, sysVars>>

\* The caller calls again, with any facts.
CallAgain ==
    /\ pc \in {"returned", "thrown"}
    /\ ncalls < MaxCalls
    /\ data' \in SeqFacts
    /\ ncalls' = ncalls + 1
    /\ pc' = "entry"
    /\ UNCHANGED <<report, localVars, firstData, firstReport, unitVars, sysVars>>

NextSeq ==
    \/ Enter
    \/ PushSearchVisibility
    \/ PushContentStrength
    \/ ThrowContentStrength
    \/ PushTechnicalHealth
    \/ PushTrustCredibility
    \/ PushGrowthSignals
    \/ Summarize
    \/ Breakdown
    \/ SortCategories
    \/ SetSummary
    \/ Return
    \/ CallAgain

SpecSeq == InitSeq /\ [][NextSeq]_vars

(***************************************************************************)
(* One call per facts record, the records varying one rule's fields at a   *)
(* time around that rule's thresholds, each field also absent, on an       *)
(* otherwise complete page.                                                *)
(***************************************************************************)
\* Lengths and counts are taken within Slack of every threshold.
Slack == 1

Near(t) == (t - Slack)..(t + Slack)

OptFlags == {U, Bool(FALSE), Bool(TRUE)}

OptNums(ns) == {U} \cup {Num(n) : n \in ns}

RuleTitleObjs ==
    {U} \cup {Obj([exists |-> e, length |-> l]) :
                 e \in OptFlags, l \in OptNums({0} \cup Near(30) \cup Near(60))}

RuleMetaObjs ==
    {U} \cup {Obj([exists |-> e, length |-> l]) :
                 e \in OptFlags, l \in OptNums({0} \cup Near(100) \cup Near(160))}

RuleOgObjs == {U} \cup {Obj([hasOg |-> f]) : f \in OptFlags}

RuleHeadingObjs == {U} \cup {Obj([h1Count |-> c]) : c \in OptNums(0..(1 + Slack))}

RuleContentObjs ==
    {U} \cup {Obj([wordCount |-> w]) : w \in OptNums({0} \cup Near(300) \cup Near(600))}

RuleImagesObjs ==
    {U, Obj([altStats |-> U])}
    \cup {Obj([altStats |-> Obj([total |-> t, missing |-> m])]) :
             t \in OptNums(0..(MaxImages + Slack)), m \in OptNums(0..(MaxImages + Slack))}

RuleTechnicalObjs ==
    {U} \cup {Obj([https |-> h, mobileFriendly |-> m, noindex |-> n, sitemap |-> sm]) :
                 h \in OptFlags, m \in OptFlags, n \in OptFlags, sm \in OptFlags}

RuleTrustObjs ==
    {U} \cup {Obj([internalLinks |-> l, hasSchema |-> sc]) :
                 l \in OptNums(0..(5 + Slack)), sc \in OptFlags}

\* The complete page the varied sub-record is put into.
BaseOnpage ==
    [title |-> Obj([exists |-> Bool(TRUE), length |-> Num(30)]),
     meta |-> Obj([exists |-> Bool(TRUE), length |-> Num(100)]),
     og |-> Obj([hasOg |-> Bool(TRUE)]),
     headings |-> Obj([h1Count |-> Num(1)]),
     content |-> Obj([wordCount |-> Num(600)]),
     images |-> Obj([altStats |-> Obj([total |-> Num(MaxImages), missing |-> Num(0)])])]

BaseTechnical ==
    Obj([https |-> Bool(TRUE), mobileFriendly |-> Bool(TRUE),
         noindex |-> Bool(FALSE), sitemap |-> Bool(TRUE)])

BaseTrust == Obj([internalLinks |-> Num(6), hasSchema |-> Bool(TRUE)])

PageWith(onpage, technical, trust) ==
    Obj([onpage |-> onpage, technical |-> technical, trust |-> trust])

RuleFacts ==
    {PageWith(Obj([BaseOnpage EXCEPT !.title = x]), BaseTechnical, BaseTrust) : x \in RuleTitleObjs}
    \cup {PageWith(Obj([BaseOnpage EXCEPT !.meta = x]), BaseTechnical, BaseTrust) : x \in RuleMetaObjs}
    \cup {PageWith(Obj([BaseOnpage EXCEPT !.og = x]), BaseTechnical, BaseTrust) : x \in RuleOgObjs}
    \cup {PageWith(Obj([BaseOnpage EXCEPT !.headings = x]), BaseTechnical, BaseTrust) : x \in RuleHeadingObjs}
    \cup {PageWith(Obj([BaseOnpage EXCEPT !.content = x]), BaseTechnical, BaseTrust) : x \in RuleContentObjs}
    \cup {PageWith(Obj([BaseOnpage EXCEPT !.images = x]), BaseTechnical, BaseTrust) : x \in RuleImagesObjs}
    \cup {PageWith(Obj(BaseOnpage), x, BaseTrust) : x \in RuleTechnicalObjs}
    \cup {PageWith(Obj(BaseOnpage), BaseTechnical, x) : x \in RuleTrustObjs}
    \cup {PageWith(U, BaseTechnical, BaseTrust), Obj(<<>>)}

InitRule ==
    /\ data \in RuleFacts
    /\ pc = "call"
    /\ report = NoReport
    /\ NoLocals
    /\ ncalls = 1
    /\ firstData = data
    /\ firstReport = NoReport
    /\ NoUnit
    /\ NoSys

SpecRule == InitRule /\ [][Interpret]_vars

(***************************************************************************)
(* A call on a facts record with parts absent, then a call on the same    *)
(* record with every absent field written out as the default its get call  *)
(* names.                                                                  *)
(***************************************************************************)
\* Pages on which each sub-record is either absent or complete.
AbsenceFacts ==
    {PageWith(Obj([title |-> IF 1 \in a THEN U ELSE BaseOnpage.title,
                   meta |-> IF 2 \in a THEN U ELSE BaseOnpage.meta,
                   og |-> IF 3 \in a THEN U ELSE BaseOnpage.og,
                   headings |-> IF 4 \in a THEN U ELSE BaseOnpage.headings,
                   content |-> IF 5 \in a THEN U ELSE BaseOnpage.content,
                   images |-> IF 6 \in a THEN U ELSE BaseOnpage.images]),
              IF 7 \in a THEN U ELSE BaseTechnical,
              IF 8 \in a THEN U ELSE BaseTrust) : a \in SUBSET (1..8)}

\* The value at a path of d, or the default where d states none.
OrDefault(d, path, defaultValue) ==
    LET RECURSIVE at(_, _)
        at(o, p) == IF p = <<>> THEN o
                    ELSE IF o.t = "object" /\ Head(p) \in DOMAIN o.o
                         THEN at(o.o[Head(p)], Tail(p))
                         ELSE U
    IN  IF at(d, path) = U THEN defaultValue ELSE at(d, path)

\* d with every field the interpreter reads written out: the default of the
\* get call that reads it (0, false; {total: 0, missing: 0} for altStats).
WithDefaults(d) ==
    PageWith(
        Obj([title |-> Obj([exists |-> OrDefault(d, <<"onpage", "title", "exists">>, Bool(FALSE)),
                            length |-> OrDefault(d, <<"onpage", "title", "length">>, Num(0))]),
             meta |-> Obj([exists |-> OrDefault(d, <<"onpage", "meta", "exists">>, Bool(FALSE)),
                           length |-> OrDefault(d, <<"onpage", "meta", "length">>, Num(0))]),
             og |-> Obj([hasOg |-> OrDefault(d, <<"onpage", "og", "hasOg">>, Bool(FALSE))]),
             headings |-> Obj([h1Count |-> OrDefault(d, <<"onpage", "headings", "h1Count">>, Num(0))]),
             content |-> Obj([wordCount |-> OrDefault(d, <<"onpage", "content", "wordCount">>, Num(0))]),
             images |-> Obj([altStats |->
                 Obj([total |-> OrDefault(d, <<"onpage", "images", "altStats", "total">>, Num(0)),
                      missing |-> OrDefault(d, <<"onpage", "images", "altStats", "missing">>, Num(0))])])]),
        Obj([https |-> OrDefault(d, <<"technical", "https">>, Bool(FALSE)),
             mobileFriendly |-> OrDefault(d, <<"technical", "mobileFriendly">>, Bool(FALSE)),
             noindex |-> OrDefault(d, <<"technical", "noindex">>, Bool(FALSE)),
             sitemap |-> OrDefault(d, <<"technical", "sitemap">>, Bool(FALSE))]),
        Obj([internalLinks |-> OrDefault(d, <<"trust", "internalLinks">>, Num(0)),
             hasSchema |-> OrDefault(d, <<"trust", "hasSchema">>, Bool(FALSE))]))

InitDefault ==
    /\ data \in RuleFacts \cup AbsenceFacts
    /\ pc = "call"
    /\ report = NoReport
    /\ NoLocals
    /\ ncalls = 1
    /\ firstData = data
    /\ firstReport = NoReport
    /\ NoUnit
    /\ NoSys

\* The first call has returned; the record is completed and passed again.
CallWithDefaults ==
    /\ pc = "returned"
    /\ ncalls = 1
    /\ data # WithDefaults(data)
    /\ data' = WithDefaults(data)
    /\ firstReport' = report
    /\ ncalls' = 2
    /\ pc' = "call"
    /\ UNCHANGED <<report, localVars, firstData, unitVars, sysVars>>

SpecDefault == InitDefault /\ [][Interpret \/ CallWithDefaults]_vars

(***************************************************************************)
(* Two records interpreted side by side, each by a call of its own.        *)
(***************************************************************************)
\* Pages at every level of the content rules, with and without images.
PairOnpageObjs ==
    {Obj([title |-> Obj([exists |-> Bool(c.len > 0), length |-> Num(c.len)]),
          meta |-> Obj([exists |-> Bool(c.meta > 0), length |-> Num(c.meta)]),
          og |-> Obj([hasOg |-> og]),
          headings |-> Obj([h1Count |-> Num(c.h1)]),
          content |-> Obj([wordCount |-> Num(c.wc)]),
          images |-> Obj([altStats |-> al])]) :
        c \in {[len |-> 0, meta |-> 0, h1 |-> 0, wc |-> 0],
               [len |-> 61, meta |-> 99, h1 |-> 2, wc |-> 300],
               [len |-> 30, meta |-> 100, h1 |-> 1, wc |-> 600]},
        og \in {Bool(FALSE), Bool(TRUE)},
        al \in {Obj([total |-> Num(0), missing |-> Num(0)]),
                Obj([total |-> Num(MaxImages), missing |-> Num(MaxImages)]),
                Obj([total |-> Num(MaxImages), missing |-> Num(0)])}}

PairTechnicalObjs ==
    {Obj([https |-> Bool(FALSE), mobileFriendly |-> Bool(FALSE),
          noindex |-> Bool(TRUE), sitemap |-> Bool(FALSE)]),
     Obj([https |-> Bool(TRUE), mobileFriendly |-> Bool(FALSE),
          noindex |-> Bool(FALSE), sitemap |-> Bool(TRUE)]),
     BaseTechnical}

PairTrustObjs ==
    {Obj([internalLinks |-> Num(0), hasSchema |-> Bool(FALSE)]), BaseTrust}

PairFacts ==
    {PageWith(o, t, r) : o \in PairOnpageObjs, t \in PairTechnicalObjs, r \in PairTrustObjs}

InitPair ==
    /\ firstData \in PairFacts
    /\ data \in PairFacts
    /\ pc = "pair"
    /\ report = NoReport
    /\ firstReport = NoReport
    /\ NoLocals
    /\ ncalls = 0
    /\ NoUnit
    /\ NoSys

\* Both calls, each on its own record.
InterpretPair ==
    /\ pc = "pair"
    /\ ~interpretThrows(firstData)
    /\ ~interpretThrows(data)
    /\ firstReport' = interpretSeoMetrics(firstData)
    /\ report' = interpretSeoMetrics(data)
    /\ ncalls' = 2
    /\ pc' = "pairDone"
    /\ UNCHANGED <<data, firstData, localVars, unitVars, sysVars>>

SpecPair == InitPair /\ [][InterpretPair]_vars

(***************************************************************************)
(* Two calls in progress at once, their statements interleaved in every    *)
(* order.  Each call has a frame of its own: its argument and the consts   *)
(* it declares.                                                            *)
(***************************************************************************)
Invocations == {1, 2}

ConcFacts ==
    {PageWith(Obj(BaseOnpage), BaseTechnical, BaseTrust),
     PageWith(Obj([BaseOnpage EXCEPT
                      !.title = Obj([exists |-> Bool(FALSE), length |-> Num(0)]),
                      !.images = Obj([altStats |-> Obj([total |-> Num(MaxImages),
                                                        missing |-> Num(MaxImages)])])]),
              Obj([https |-> Bool(FALSE), mobileFriendly |-> Bool(TRUE),
                   noindex |-> Bool(TRUE), sitemap |-> Bool(FALSE)]),
              BaseTrust),
     Obj(<<>>),
     PageWith(Obj([BaseOnpage EXCEPT !.images = Obj([altStats |-> Null])]),
              BaseTechnical, BaseTrust)}

NewFrame(d) ==
    [data |-> d, pc |-> "entry", sections |-> <<>>, criticalMetris |-> <<>>,
     actions |-> <<>>, seoBreakdown |-> NoReport, categories |-> <<>>,
     report |-> NoReport]

\* A local read as if it were declared once, outside the function.
localShared(fs, i, name) == fs[1][name]

\* A local of call i: const declarations in the function body belong to the
\* call that runs them.
localOf(fs, i, name) == fs[i][name]

MidCall(f) == f.pc \notin {"entry", "returned", "thrown"}

InitConc ==
    /\ \E a \in ConcFacts : \E b \in ConcFacts \ {a} :
          frames = [i \in Invocations |-> NewFrame(IF i = 1 THEN a ELSE b)]
    /\ interleaved = FALSE
    /\ pc = "concurrent"
    /\ NoRoute
    /\ NoPage
    /\ data = U
    /\ report = NoReport
    /\ NoLocals
    /\ ncalls = 0
    /\ firstData = U
    /\ firstReport = NoReport
    /\ NoUnit

\* Call i takes one step, which leaves f as its frame.
Advance(i, f) ==
    /\ frames' = [frames EXCEPT ![i] = f]
    /\ interleaved' = (interleaved \/ \E j \in Invocations \ {i} : MidCall(frames[j]))
    /\ UNCHANGED <<callVars, localVars, histVars, unitVars, routeVars, pageVars>>

ConcEnter(i) ==
    /\ frames[i].pc = "entry"
    /\ Advance(i, [frames[i] EXCEPT !.sections = newSections(localOf(frames, i, "sections")),
                                    !.pc = "searchVisibility"])

ConcPush(i, at, name, metrics, then) ==
    /\ frames[i].pc = at
    /\ Advance(i, [frames[i] EXCEPT
                      !.sections = Append(localOf(frames, i, "sections"), Section(name, metrics)),
                      !.pc = then])

ConcPushSearchVisibility(i) ==
    ConcPush(i, "searchVisibility", "Search visibility",
             searchVisibility(frames[i].data), "contentStrength")

ConcPushContentStrength(i) ==
    /\ ~AltRuleThrows(frames[i].data)
    /\ ConcPush(i, "contentStrength", "Content strength",
                contentStrength(frames[i].data), "technicalHealth")

ConcThrowContentStrength(i) ==
    /\ frames[i].pc = "contentStrength"
    /\ AltRuleThrows(frames[i].data)
    /\ Advance(i, [frames[i] EXCEPT !.pc = "thrown"])

ConcPushTechnicalHealth(i) ==
    ConcPush(i, "technicalHealth", "Technical health",
             technicalHealth(frames[i].data), "trustCredibility")

ConcPushTrustCredibility(i) ==
    ConcPush(i, "trustCredibility", "Trust & credibility",
             trustCredibility(frames[i].data), "growthSignals")

ConcPushGrowthSignals(i) ==
    ConcPush(i, "growthSignals", "Growth signals", growthSignals, "summary")

ConcSummarize(i) ==
    /\ frames[i].pc = "summary"
    /\ LET crit == collectCritical(localOf(frames, i, "sections"))
       IN  Advance(i, [frames[i] EXCEPT !.criticalMetris = crit,
                                        !.actions = summaryActions(crit),
                                        !.pc = "breakdown"])

ConcBreakdown(i) ==
    /\ frames[i].pc = "breakdown"
    /\ LET bd == buildBreakdown(localOf(frames, i, "sections"))
       IN  Advance(i, [frames[i] EXCEPT !.seoBreakdown = bd,
                                        !.categories = buildCategories(bd),
                                        !.pc = "sort"])

ConcSortCategories(i) ==
    /\ frames[i].pc = "sort"
    /\ Advance(i, [frames[i] EXCEPT
                      !.categories = sortCategories(localOf(frames, i, "categories")),
                      !.pc = "setSummary"])

ConcSetSummary(i) ==
    /\ frames[i].pc = "setSummary"
    /\ Advance(i, [frames[i] EXCEPT
                      !.seoBreakdown = withSummary(localOf(frames, i, "seoBreakdown"),
                                                   localOf(frames, i, "categories")),
                      !.pc = "return"])

ConcReturn(i) ==
    /\ frames[i].pc = "return"
    /\ Advance(i, [frames[i] EXCEPT
                      !.report = makeReport(localOf(frames, i, "sections"),
                                            localOf(frames, i, "actions"),
                                            localOf(frames, i, "seoBreakdown")),
                      !.pc = "returned"])

NextConc ==
    \E i \in Invocations :
        \/ ConcEnter(i)
        \/ ConcPushSearchVisibility(i)
        \/ ConcPushContentStrength(i)
        \/ ConcThrowContentStrength(i)
        \/ ConcPushTechnicalHealth(i)
        \/ ConcPushTrustCredibility(i)
        \/ ConcPushGrowthSignals(i)
        \/ ConcSummarize(i)
        \/ ConcBreakdown(i)
        \/ ConcSortCategories(i)
        \/ ConcSetSummary(i)
        \/ ConcReturn(i)

SpecConc == InitConc /\ [][NextConc]_vars

(***************************************************************************)
(* POST /api/analyze (src/src/app/api/analyze/route.ts), one action per    *)
(* stretch of the handler between two awaits.  A page is given as what the *)
(* handler's selectors find in its HTML.                                   *)
(***************************************************************************)
Str(s) == [t |-> "string", s |-> s]

BodyUrls ==
    {U, Null, Num(7), Str(""), Str("example.com"),
     Str("https://example.com"), Str("http://example.com")}

Bodies == {[json |-> "invalid"]} \cup {[json |-> "valid", url |-> u] : u \in BodyUrls}

Pages ==
    {[titleLength |-> c.len, metaLength |-> c.meta, h1Count |-> c.h1,
      wordCount |-> c.wc, hasOg |-> f, totalImgs |-> im.total,
      missingAlt |-> im.missing, hasViewport |-> f, isNoIndex |-> ~f,
      internal |-> c.h1 * 6, hasSchema |-> f] :
        c \in {[len |-> 0, meta |-> 0, h1 |-> 0, wc |-> 0],
               [len |-> 61, meta |-> 99, h1 |-> 2, wc |-> 300],
               [len |-> 30, meta |-> 100, h1 |-> 1, wc |-> 600]},
        im \in {[total |-> 0, missing |-> 0], [total |-> MaxImages, missing |-> MaxImages]},
        f \in BOOLEAN}

\* The check left out: no url is ever taken as missing.
notUrlSkipped(url) == FALSE

\* !url
notUrl(url) == IF url.t = "string" THEN url.s = "" ELSE ~Truthy(url)

\* targetUrl.startsWith('http'), on the texts of BodyUrls
startsWithHttp(u) == u \in {"https://example.com", "http://example.com"}

\* Lines 32-35.
normalise(u) == IF startsWithHttp(u) THEN u ELSE "https://" \o u

ErrorResponse(message, http) == [status |-> "error", error |-> message, http |-> http]

\* Lines 69-79; NextResponse.json(result) answers with HTTP 200.
OkResponse(url, facts, rep) ==
    [url |-> url, status |-> "ok", onpage |-> facts.o.onpage,
     technical |-> facts.o.technical, trust |-> facts.o.trust,
     warnings |-> <<>>, report |-> rep, http |-> 200]

\* Lines 112-127, the fields the interpreter reads.
analyzeOnPage(p) ==
    Obj([title |-> Obj([length |-> Num(p.titleLength), exists |-> Bool(p.titleLength > 0)]),
         meta |-> Obj([length |-> Num(p.metaLength), exists |-> Bool(p.metaLength > 0)]),
         headings |-> Obj([h1Count |-> Num(p.h1Count)]),
         og |-> Obj([hasOg |-> Bool(p.hasOg)]),
         images |-> Obj([altStats |-> Obj([total |-> Num(p.totalImgs),
                                           missing |-> Num(p.missingAlt)])]),
         content |-> Obj([wordCount |-> Num(p.wordCount)])])

\* The sitemap probe: fetch(...).catch(() => null), then sRes.status === 200.
SitemapProbes == {"rejects", "200", "404"}

hasSitemapOf(probe) == probe = "200"

\* Lines 131-152, the fields the interpreter reads.
analyzeTechnical(url, p, probe) ==
    Obj([https |-> Bool(url = "https://example.com"),
         mobileFriendly |-> Bool(p.hasViewport),
         noindex |-> Bool(p.isNoIndex),
         sitemap |-> Bool(hasSitemapOf(probe))])

\* Lines 155-172.
analyzeTrust(p) ==
    Obj([internalLinks |-> Num(p.internal), hasSchema |-> Bool(p.hasSchema)])

InitRoute ==
    /\ request \in Bodies
    /\ rpc = "json"
    /\ targetUrl = ""
    /\ page = U
    /\ routeFacts = U
    /\ response = NoResponse
    /\ nfetch = 0
    /\ ninterpret = 0
    /\ outcomes = NoOutcomes
    /\ NoConc
    /\ NoPage
    /\ pc = "route"
    /\ data = U
    /\ report = NoReport
    /\ NoLocals
    /\ ncalls = 0
    /\ firstData = U
    /\ firstReport = NoReport
    /\ NoUnit

routeFrame == <<callVars, localVars, histVars, unitVars, concVars, pageVars>>

\* Lines 25-35: the body is parsed, the url checked and completed.  A body
\* that is no JSON, or a url that is no string, throws into the outer catch.
RouteParse ==
    /\ rpc = "json"
    /\ IF request.json = "invalid"
         THEN /\ response' = ErrorResponse("Internal server error", 500)
              /\ rpc' = "done"
              /\ UNCHANGED targetUrl
         ELSE IF notUrl(request.url)
         THEN /\ response' = ErrorResponse("URL is required", 400)
              /\ rpc' = "done"
              /\ UNCHANGED targetUrl
         ELSE IF request.url.t # "string"
         THEN /\ response' = ErrorResponse("Internal server error", 500)
              /\ rpc' = "done"
              /\ UNCHANGED targetUrl
         ELSE /\ targetUrl' = normalise(request.url.s)
              /\ rpc' = "fetch"
              /\ UNCHANGED response
    /\ UNCHANGED <<request, page, routeFacts, nfetch, ninterpret, outcomes, routeFrame>>

\* Lines 39-45: the page fetch settles.
RouteFetch ==
    /\ rpc = "fetch"
    /\ nfetch' = nfetch + 1
    /\ \E outcome \in {"throws", "notOk", "ok"} :
          /\ outcomes' = [outcomes EXCEPT !.fetch = outcome]
          /\ IF outcome = "ok"
               THEN rpc' = "text" /\ UNCHANGED response
               ELSE /\ response' = ErrorResponse("Failed to fetch URL", 500)
                    /\ rpc' = "done"
    /\ UNCHANGED <<request, targetUrl, page, routeFacts, ninterpret, routeFrame>>

\* Lines 46-56: the text is read (or reading it throws), the on-page facts
\* are extracted and analyzeTechnical starts its sitemap probe.
RouteText ==
    /\ rpc = "text"
    /\ \/ /\ outcomes' = [outcomes EXCEPT !.fetch = "textThrows"]
          /\ response' = ErrorResponse("Failed to fetch URL", 500)
          /\ rpc' = "done"
          /\ UNCHANGED <<page, routeFacts>>
       \/ /\ page' \in Pages
          /\ routeFacts' = Obj([onpage |-> analyzeOnPage(page')])
          /\ rpc' = "sitemap"
          /\ UNCHANGED <<response, outcomes>>
    /\ UNCHANGED <<request, targetUrl, nfetch, ninterpret, routeFrame>>

\* Lines 56-82: the probe settles, technical and trust are extracted, the
\* interpreter is called and the result returned; a throw of the
\* interpreter lands in the outer catch.
RouteSitemap ==
    /\ rpc = "sitemap"
    /\ \E probe \in SitemapProbes :
          LET facts == PageWith(routeFacts.o.onpage,
                                analyzeTechnical(targetUrl, page, probe),
                                analyzeTrust(page))
          IN  /\ outcomes' = [outcomes EXCEPT !.sitemap = probe]
              /\ routeFacts' = facts
              /\ ninterpret' = ninterpret + 1
              /\ response' = IF interpretThrows(facts)
                               THEN ErrorResponse("Internal server error", 500)
                               ELSE OkResponse(targetUrl, facts, interpretSeoMetrics(facts))
    /\ rpc' = "done"
    /\ UNCHANGED <<request, targetUrl, page, nfetch, routeFrame>>

NextRoute == RouteParse \/ RouteFetch \/ RouteText \/ RouteSitemap

SpecRoute == InitRoute /\ [][NextRoute]_vars

(***************************************************************************)
(* The page (src/unnamed/part_001, src/src/app/page.tsx): its React state, *)
(* the handlers of its inputs and buttons, and startDuel up to and after   *)
(* its await of Promise.all.  A handler, and the continuation of an await, *)
(* runs to its end before any other event is handled.                      *)
(***************************************************************************)
MaxOrphans == 1

UrlTexts == {"", " ", "a.com", "https://www.b.com"}

\* String.prototype.trim, on UrlTexts
trim(u) == IF u = " " THEN "" ELSE u

\* url.replace(/^https?:\/\//, '').replace(/^www\./, ''), on UrlTexts
formatUrl(u) == IF u = "https://www.b.com" THEN "b.com" ELSE u

\* The scores an analysis may report.
Scores == {40, 80}

Sides == {"user", "comp"}

OtherSide(side) == IF side = "user" THEN "comp" ELSE "user"

\* The button rendered whatever the state.
startAvailableAlways(shown, loading) == TRUE

\* {!showResults && !isLoading && (<button ... onClick={startDuel}>)}
startAvailable(shown, loading) == ~shown /\ ~loading

\* The finally block left out: isLoading stays as it is.
loadingAfterKept(loading) == loading

\* finally { setIsLoading(false) }
loadingAfter(loading) == FALSE

\* Promise.all fulfilled as soon as one of the two is.
anyFulfilled(rs) == \E side \in Sides : rs[side].state = "ok"

\* Promise.all is fulfilled when both promises are.
allFulfilled(rs) == \A side \in Sides : rs[side].state = "ok"

\* The url labels of the score cards, as rendered from the state.
urlLabel(side) ==
    IF side = "user"
    THEN (IF formatUrl(userUrl) = "" THEN "example.com" ELSE formatUrl(userUrl))
    ELSE (IF formatUrl(compUrl) = "" THEN "competitor.com" ELSE formatUrl(compUrl))

InitPage ==
    /\ NoPage
    /\ NoConc
    /\ NoRoute
    /\ pc = "page"
    /\ data = U
    /\ report = NoReport
    /\ NoLocals
    /\ ncalls = 0
    /\ firstData = U
    /\ firstReport = NoReport
    /\ NoUnit

pageFrame == <<callVars, localVars, histVars, unitVars, concVars, routeVars>>

\* onChange of the "your-site" input
EditUserUrl ==
    /\ \E v \in UrlTexts :
          /\ v # userUrl
          /\ userUrl' = v
          /\ error' = IF v # "" /\ compUrl # "" THEN FALSE ELSE error
    /\ UNCHANGED <<compUrl, isLoading, showResults, results, requests, submitted,
                   orphans, pageFrame>>

\* onChange of the "competitor-site" input
EditCompUrl ==
    /\ \E v \in UrlTexts :
          /\ v # compUrl
          /\ compUrl' = v
          /\ error' = IF userUrl # "" /\ v # "" THEN FALSE ELSE error
    /\ UNCHANGED <<userUrl, isLoading, showResults, results, requests, submitted,
                   orphans, pageFrame>>

\* A click on Start Duel with a blank url: the validation fails.
StartDuelInvalid ==
    /\ startAvailable(showResults, isLoading)
    /\ trim(userUrl) = "" \/ trim(compUrl) = ""
    /\ error' = TRUE
    /\ UNCHANGED <<userUrl, compUrl, isLoading, showResults, results, requests,
                   submitted, orphans, pageFrame>>

\* A click on Start Duel: both requests are sent, and startDuel awaits them.
\* A request of an earlier, failed duel that is still pending stays so.
StartDuel ==
    /\ startAvailable(showResults, isLoading)
    /\ trim(userUrl) # "" /\ trim(compUrl) # ""
    /\ LET left == Cardinality({side \in Sides : requests[side].state = "pending"})
       IN  /\ orphans + left <= MaxOrphans
           /\ orphans' = orphans + left
    /\ error' = FALSE
    /\ isLoading' = TRUE
    /\ submitted' = [user |-> userUrl, comp |-> compUrl]
    /\ requests' = [side \in Sides |-> [state |-> "pending", score |-> 0]]
    /\ UNCHANGED <<userUrl, compUrl, showResults, results, pageFrame>>

\* One of the two requests is answered with a report.  With the other still
\* pending nothing else happens; with both fulfilled startDuel stores the
\* results, shows them and ends.
RequestSucceeds ==
    /\ isLoading
    /\ \E side \in Sides, n \in Scores :
          /\ requests[side].state = "pending"
          /\ requests' = [requests EXCEPT ![side] = [state |-> "ok", score |-> n]]
          /\ IF allFulfilled(requests')
               THEN /\ results' = [userScore |-> requests'.user.score,
                                   compScore |-> requests'.comp.score,
                                   userWins |-> requests'.user.score >= requests'.comp.score]
                    /\ showResults' = TRUE
                    /\ isLoading' = loadingAfter(isLoading)
               ELSE UNCHANGED <<results, showResults, isLoading>>
    /\ UNCHANGED <<userUrl, compUrl, error, submitted, orphans, pageFrame>>

\* One of the two requests fails (the fetch rejects, the answer is not OK,
\* or its body is no JSON): Promise.all rejects at once, startDuel sets the
\* error flag and ends.
RequestFails ==
    /\ isLoading
    /\ \E side \in Sides :
          /\ requests[side].state = "pending"
          /\ requests' = [requests EXCEPT ![side] = [state |-> "failed", score |-> 0]]
    /\ error' = TRUE
    /\ isLoading' = loadingAfter(isLoading)
    /\ UNCHANGED <<userUrl, compUrl, showResults, results, submitted, orphans, pageFrame>>

\* The other request of a failed duel settles: nobody awaits it.
StragglerSettles ==
    /\ ~isLoading
    /\ \E side \in Sides, st \in {"ok", "failed"} :
          /\ requests[side].state = "pending"
          /\ requests' = [requests EXCEPT ![side] = [state |-> st, score |-> 0]]
    /\ UNCHANGED <<userUrl, compUrl, error, isLoading, showResults, results, submitted,
                   orphans, pageFrame>>

\* The same for a request left over from before the duel now running.
OrphanSettles ==
    /\ orphans > 0
    /\ orphans' = orphans - 1
    /\ UNCHANGED <<userUrl, compUrl, error, isLoading, showResults, results, requests,
                   submitted, pageFrame>>

\* A click on New Comparison, which is rendered with the results.
ResetDuel ==
    /\ showResults /\ results # Null
    /\ showResults' = FALSE
    /\ results' = Null
    /\ userUrl' = ""
    /\ compUrl' = ""
    /\ UNCHANGED <<error, isLoading, requests, submitted, orphans, pageFrame>>

NextPage ==
    \/ EditUserUrl
    \/ EditCompUrl
    \/ StartDuelInvalid
    \/ StartDuel
    \/ RequestSucceeds
    \/ RequestFails
    \/ StragglerSettles
    \/ OrphanSettles
    \/ ResetDuel

SpecPage == InitPage /\ [][NextPage]_vars

\* The requests of the duel awaited settle: the network answers or fails.
SpecPageFair ==
    SpecPage /\ WF_vars(RequestSucceeds \/ RequestFails)

(***************************************************************************)
(* extractKeywords, on its own.  A text is given as the words that         *)
(* toLowerCase, the removal of punctuation and split(/\s+/) leave of it.   *)
(***************************************************************************)
MaxWords == 3

\* The stop words of more than two letters that matter here; every shorter
\* word is dropped by its length already.
STOP_WORDS == {"the", "and", "for"}

\* Words a page may hold: two content words, a stop word, a short word, and
\* a word that names a property every object inherits from Object.prototype.
Vocabulary == {"seo", "audit", "the", "go", "constructor"}

\* w.length
Length(w) ==
    CASE w = "" -> 0
      [] w = "go" -> 2
      [] w \in {"seo", "the", "and", "for"} -> 3
      [] w = "audit" -> 5
      [] w = "constructor" -> 11

Texts == UNION {[1..n -> Vocabulary] : n \in 0..MaxWords}

\* split(/\s+/): the empty text splits into one empty string.
split(t) == IF t = <<>> THEN <<"">> ELSE t

\* filter(w => w.length > 2 && !STOP_WORDS.has(w))
filterWords(ws) == SelectSeq(ws, LAMBDA w : Length(w) > 2 /\ w \notin STOP_WORDS)

\* The function Object, found as freqMap.constructor through the prototype
\* of the literal {}; and the string that adding 1 to it k times gives,
\* "function Object() { [native code] }" followed by k ones.
ObjectFunction == [t |-> "function"]
FunctionText(k) == [t |-> "string", ones |-> k]

\* freqMap[w]: the own property if one was written, else the inherited one.
freqGet(freqMap, w) ==
    IF \E i \in 1..Len(freqMap) : freqMap[i].word = w
    THEN (CHOOSE e \in {freqMap[i] : i \in 1..Len(freqMap)} : e.word = w).count
    ELSE IF w = "constructor" THEN ObjectFunction ELSE U

\* (v || 0) + 1: a number is incremented, undefined counts from 0, and a
\* function or a string is truthy and has "1" appended to its text.
orZeroPlusOne(v) ==
    CASE v.t = "undefined" -> Num(1)
      [] v.t = "number" -> IF v.n = 0 THEN Num(1) ELSE Num(v.n + 1)
      [] v.t = "function" -> FunctionText(1)
      [] v.t = "string" -> FunctionText(v.ones + 1)

\* freqMap[w] = ...: own properties keep the order of their first write.
freqSet(freqMap, w, v) ==
    IF \E i \in 1..Len(freqMap) : freqMap[i].word = w
    THEN [i \in 1..Len(freqMap) |->
            IF freqMap[i].word = w THEN [word |-> w, count |-> v] ELSE freqMap[i]]
    ELSE Append(freqMap, [word |-> w, count |-> v])

RECURSIVE countWords(_, _)
countWords(freqMap, ws) ==
    IF ws = <<>> THEN freqMap
    ELSE countWords(freqSet(freqMap, Head(ws), orZeroPlusOne(freqGet(freqMap, Head(ws)))),
                    Tail(ws))

\* b - a on two counts: NaN unless both are numbers.
countDiff(b, a) ==
    IF a.t = "number" /\ b.t = "number" THEN [nan |-> FALSE, n |-> b.n - a.n]
    ELSE [nan |-> TRUE, n |-> 0]

\* The comparator ([, a], [, b]) => b - a puts y before x only when it is
\* positive; NaN counts as 0.
kwComesAfter(x, y) ==
    LET d == countDiff(y.count, x.count) IN ~d.nan /\ d.n > 0

\* The stable sort: each entry goes after every entry that does not come
\* after it.  (Where a count is no number the comparator is inconsistent and
\* the order is the engine's; nothing below reads the order.)
RECURSIVE kwInsert(_, _)
kwInsert(sorted, e) ==
    IF sorted = <<>> THEN <<e>>
    ELSE IF kwComesAfter(sorted[Len(sorted)], e)
         THEN Append(kwInsert(SubSeq(sorted, 1, Len(sorted) - 1), e), sorted[Len(sorted)])
         ELSE Append(sorted, e)

RECURSIVE kwSort(_, _)
kwSort(sorted, rest) ==
    IF rest = <<>> THEN sorted
    ELSE kwSort(kwInsert(sorted, Head(rest)), Tail(rest))

\* slice(0, 5)
sliceTop(es) == SubSeq(es, 1, IF Len(es) < 5 THEN Len(es) ELSE 5)

\* ((count / totalWords) * 100).toFixed(2) + '%', as hundredths of a percent:
\* "NaN%" when count is no number or 0 / 0, "Infinity%" on n / 0.
density(count, totalWords) ==
    IF count.t # "number" THEN [kind |-> "NaN", hundredths |-> 0]
    ELSE IF totalWords = 0
         THEN [kind |-> IF count.n = 0 THEN "NaN" ELSE "Infinity", hundredths |-> 0]
         ELSE [kind |-> "number", hundredths |-> roundDiv(count.n * 10000, totalWords)]

\* Lines 221-243.
extractKeywords(t) ==
    LET words == filterWords(split(t))
        freqMap == countWords(<<>>, words)
        totalWords == Len(words)
        top == sliceTop(kwSort(<<>>, freqMap))
    IN  [i \in 1..Len(top) |->
            [word |-> top[i].word, count |-> top[i].count,
             density |-> density(top[i].count, totalWords)]]

InitKw ==
    /\ text \in Texts
    /\ keywords = NoReport
    /\ catInput = <<>>
    /\ catResult = NoReport
    /\ NoSys
    /\ pc = "keywords"
    /\ data = U
    /\ report = NoReport
    /\ NoLocals
    /\ ncalls = 0
    /\ firstData = U
    /\ firstReport = NoReport

ExtractKeywords ==
    /\ pc = "keywords"
    /\ keywords' = extractKeywords(text)
    /\ pc' = "keywordsDone"
    /\ UNCHANGED <<data, report, catInput, catResult, text, localVars, histVars, sysVars>>

\* Every computation that divides: calculateCat on arbitrary lists,
\* calculateAggregatedScore within whole calls, the density of extractKeywords.
SpecDiv == (InitCat \/ InitRule \/ InitKw)
              /\ [][ApplyCat \/ Interpret \/ ExtractKeywords]_vars

(***************************************************************************)
(* Reading a report and the facts, for the properties below.               *)
(***************************************************************************)
AllResults ==
    report.sections[1].metrics \o report.sections[2].metrics
    \o report.sections[3].metrics \o report.sections[4].metrics
    \o report.sections[5].metrics

CountStatus(ms, st) == Cardinality({i \in 1..Len(ms) : ms[i].status = st})

CategoryKeys == <<"onPage", "technical", "authority">>

CatOf(key) == report.seoBreakdown[key]

\* The results each category is computed over.
GroupOf(key) ==
    CASE key = "onPage" -> report.sections[1].metrics \o report.sections[2].metrics
      [] key = "technical" -> report.sections[3].metrics
      [] key = "authority" -> report.sections[4].metrics \o report.sections[5].metrics

\* r is num/den rounded to the nearest integer, a half rounding up.
IsNearest(r, num, den) ==
    /\ 2 * r * den - den <= 2 * num
    /\ 2 * num < 2 * r * den + den

\* The number of images the facts record states, 0 when it states none.
StatedImageTotal ==
    IF /\ data.t = "object" /\ "onpage" \in DOMAIN data.o
       /\ data.o.onpage.t = "object" /\ "images" \in DOMAIN data.o.onpage.o
       /\ data.o.onpage.o.images.t = "object"
       /\ data.o.onpage.o.images.o.altStats.t = "object"
    THEN data.o.onpage.o.images.o.altStats.o.total.n
    ELSE 0

\* C1: interpretSeoMetrics returns a report and never throws, for any facts
\* value, including facts whose onpage.images.altStats is null.
C1_NeverThrows == pc # "thrown"

\* C2: a call with the facts of the first call ends as the first call did:
\* it returns the identical report (or throws as the first did), whatever
\* calls came in between.
C2_Deterministic ==
    (ncalls > 1 /\ data = firstData) =>
        /\ pc = "returned" => report = firstReport
        /\ pc = "thrown" => firstReport = NoReport

\* The third call has returned a report for the facts of the first call,
\* after a second call with other facts.
C2_Witness ==
    /\ ncalls = 3
    /\ pc = "returned"
    /\ data = firstData
    /\ report = firstReport
    /\ Len(report.sections) = 5

\* C3: the aggregate score is an integer in 0..100 and each of the three
\* category scores is an integer in 15..95.
C3_ScoreBounds ==
    Returned =>
        /\ report.score \in 0..100
        /\ \A i \in 1..3 : CatOf(CategoryKeys[i]).score \in 15..95

\* A report in which one category is clamped up to 15 and another down to 95.
C3_Witness ==
    /\ Returned
    /\ \E i, j \in 1..3 :
          /\ CatOf(CategoryKeys[i]).passed = 0 /\ CatOf(CategoryKeys[i]).score = 15
          /\ CatOf(CategoryKeys[j]).passed = CatOf(CategoryKeys[j]).total
          /\ CatOf(CategoryKeys[j]).score = 95

\* C4: the aggregate score is the average, rounded to the nearest integer,
\* of good=100, warning=50, critical=0, unknown=70 over every emitted result
\* of all five sections, the two growth-signal results included.
C4_AggregateIsRoundedAverage ==
    Returned =>
        LET n == Len(AllResults)
            pts == 100 * CountStatus(AllResults, "good")
                   + 50 * CountStatus(AllResults, "warning")
                   + 0 * CountStatus(AllResults, "critical")
                   + 70 * CountStatus(AllResults, "unknown")
        IN  /\ n = CountStatus(AllResults, "good") + CountStatus(AllResults, "warning")
                   + CountStatus(AllResults, "critical") + CountStatus(AllResults, "unknown")
            /\ CountStatus(report.sections[5].metrics, "unknown") = 2
            /\ IsNearest(report.score, pts, n)

\* A report holding results of all four statuses whose average is not an
\* integer and is rounded up.
C4_Witness ==
    /\ Returned
    /\ \A st \in {"good", "warning", "critical", "unknown"} :
          CountStatus(AllResults, st) > 0
    /\ report.score * Len(AllResults)
          > 100 * CountStatus(AllResults, "good")
            + 50 * CountStatus(AllResults, "warning")
            + 70 * CountStatus(AllResults, "unknown")

\* C5: each category is computed over its fixed group of results; total is
\* the size of the group, passed the number of good results in it, and score
\* is round(passed / total * 100) clamped into 15..95.
C5_CategoryMath ==
    Returned =>
        \A i \in 1..3 :
            LET cat == CatOf(CategoryKeys[i])
                grp == GroupOf(CategoryKeys[i])
            IN  /\ cat.total = Len(grp)
                /\ cat.passed = CountStatus(grp, "good")
                /\ cat.total > 0
                /\ \E r \in 0..100 :
                      /\ IsNearest(r, cat.passed * 100, cat.total)
                      /\ cat.score = IF r < 15 THEN 15 ELSE IF r > 95 THEN 95 ELSE r

\* A report whose on-page group holds six results of which warning and
\* critical ones are not counted, giving the unclamped score round(2/6*100).
C5_Witness ==
    /\ Returned
    /\ CatOf("onPage").total = 6
    /\ CatOf("onPage").passed = 2
    /\ CatOf("onPage").score = 33
    /\ CountStatus(GroupOf("onPage"), "warning") > 0
    /\ CountStatus(GroupOf("onPage"), "critical") > 0
    /\ CatOf("authority").passed = 2

PriorityMatches(cat) ==
    /\ cat.score < 30 => cat.priority = "critical"
    /\ (30 <= cat.score /\ cat.score < 70) => cat.priority = "warning"
    /\ cat.score >= 70 => cat.priority = "good"

\* C6: a category's priority depends on its clamped score only: critical
\* below 30, warning from 30 up to but not including 70, good from 70; 9
\* results with 3 good give score 33 and priority warning.
C6_Priority ==
    /\ pc = "unitDone" =>
          /\ PriorityMatches(catResult)
          /\ (Len(catInput) = 9 /\ CountStatus(catInput, "good") = 3) =>
                (catResult.score = 33 /\ catResult.priority = "warning")
    /\ Returned => \A i \in 1..3 : PriorityMatches(CatOf(CategoryKeys[i]))

\* calculateCat has been applied to 9 results of which 3 are good.
C6_Witness ==
    /\ pc = "unitDone"
    /\ Len(catInput) = 9
    /\ CountStatus(catInput, "good") = 3
    /\ catResult.score = 33
    /\ catResult.priority = "warning"

\* The position of a category key in the comparison array's fixed order.
OrderOf(key) == CHOOSE i \in 1..3 : CategoryKeys[i] = key

MinScore == CHOOSE x \in {CatOf(CategoryKeys[i]).score : i \in 1..3} :
                \A i \in 1..3 : x <= CatOf(CategoryKeys[i]).score

MaxScore == CHOOSE x \in {CatOf(CategoryKeys[i]).score : i \in 1..3} :
                \A i \in 1..3 : x >= CatOf(CategoryKeys[i]).score

KeySet == {CategoryKeys[i] : i \in 1..3}

\* C7: weakestArea names a category whose score is the minimum of the three,
\* strongestArea one whose score is the maximum, and recommendedFocus always
\* equals weakestArea.
C7_WeakestStrongest ==
    Returned =>
        LET sm == report.seoBreakdown.summary
        IN  /\ sm.weakestArea \in KeySet
            /\ sm.strongestArea \in KeySet
            /\ CatOf(sm.weakestArea).score = MinScore
            /\ CatOf(sm.strongestArea).score = MaxScore
            /\ sm.recommendedFocus = sm.weakestArea

\* A report with three different category scores in which the sort has to
\* move the last category to the front and the first to the back.
C7_Witness ==
    /\ Returned
    /\ CatOf("authority").score < CatOf("technical").score
    /\ CatOf("technical").score < CatOf("onPage").score
    /\ report.seoBreakdown.summary.weakestArea = "authority"
    /\ report.seoBreakdown.summary.strongestArea = "onPage"

\* C8: on ties the categories keep their order onPage, technical, authority:
\* weakestArea is the earliest of the categories with the lowest score and
\* strongestArea the latest of those with the highest score.
C8_TieOrder ==
    Returned =>
        LET sm == report.seoBreakdown.summary
        IN  /\ sm.weakestArea \in KeySet
            /\ sm.strongestArea \in KeySet
            /\ CatOf(sm.weakestArea).score = MinScore
            /\ \A k \in KeySet :
                  CatOf(k).score = MinScore => OrderOf(sm.weakestArea) <= OrderOf(k)
            /\ CatOf(sm.strongestArea).score = MaxScore
            /\ \A k \in KeySet :
                  CatOf(k).score = MaxScore => OrderOf(sm.strongestArea) >= OrderOf(k)

\* A report whose three category scores are all equal: weakestArea is onPage
\* and strongestArea is authority.
C8_Witness ==
    /\ Returned
    /\ CatOf("onPage").score = CatOf("technical").score
    /\ CatOf("technical").score = CatOf("authority").score
    /\ report.seoBreakdown.summary.weakestArea = "onPage"
    /\ report.seoBreakdown.summary.strongestArea = "authority"

\* The positions in AllResults of the critical results, and the position of
\* the k-th of them.
CriticalAt == {i \in 1..Len(AllResults) : AllResults[i].status = "critical"}

KthCritical(k) ==
    CHOOSE i \in CriticalAt : Cardinality({j \in CriticalAt : j <= i}) = k

\* C9: summary.actions is the action texts of the critical results in
\* section-then-rule order, cut to the first 4; with no critical result it is
\* the single fallback string.  Its length is between 1 and 4 and the
\* fallback never stands beside a critical result's action.
C9_Actions ==
    Returned =>
        LET acts == report.summary.actions
            nc == Cardinality(CriticalAt)
        IN  /\ Len(acts) \in 1..4
            /\ nc = 0 => acts = <<FallbackAction>>
            /\ nc > 0 =>
                  /\ Len(acts) = (IF nc < 4 THEN nc ELSE 4)
                  /\ \A k \in 1..Len(acts) : acts[k] = AllResults[KthCritical(k)].action
                  /\ \A k \in 1..Len(acts) : acts[k] # FallbackAction

\* A report with six or more critical results, of which only the first four
\* give actions.
C9_Witness ==
    /\ Returned
    /\ Cardinality(CriticalAt) >= 6
    /\ Len(report.summary.actions) = 4

SectionNames ==
    <<"Search visibility", "Content strength", "Technical health",
      "Trust & credibility", "Growth signals">>

\* C10: the report has exactly the five sections, in order, holding 3, 2 or
\* 3, 4, 2 and 2 results; Content strength holds 3 exactly when the total
\* image count is greater than zero.
C10_SectionShape ==
    Returned =>
        /\ Len(report.sections) = 5
        /\ \A i \in 1..5 : report.sections[i].name = SectionNames[i]
        /\ Len(report.sections[1].metrics) = 3
        /\ Len(report.sections[2].metrics) \in {2, 3}
        /\ Len(report.sections[3].metrics) = 4
        /\ Len(report.sections[4].metrics) = 2
        /\ Len(report.sections[5].metrics) = 2
        /\ (Len(report.sections[2].metrics) = 3) <=> (StatedImageTotal > 0)

\* A report for a page with images (three Content strength results); the
\* report for a page stating zero images is the other case.
C10_Witness ==
    /\ Returned
    /\ StatedImageTotal > 0
    /\ Len(report.sections[2].metrics) = 3
    /\ report.sections[2].metrics[3].title = "Image accessibility"

(***************************************************************************)
(* Reading the facts as stated: the value at a path, U where the path      *)
(* leads nowhere; a count or length, 0 where none is stated; a flag, false *)
(* where none is stated.                                                   *)
(***************************************************************************)
RECURSIVE Stated(_, _)
Stated(o, path) ==
    IF path = <<>> THEN o
    ELSE IF o.t = "object" /\ Head(path) \in DOMAIN o.o
         THEN Stated(o.o[Head(path)], Tail(path))
         ELSE U

StatedNum(path) ==
    IF Stated(data, path).t = "number" THEN Stated(data, path).n ELSE 0

StatedFlag(path) ==
    Stated(data, path).t = "boolean" /\ Stated(data, path).b

\* The result of each rule in a returned report.
TitleResult == report.sections[1].metrics[1]
MetaResult == report.sections[1].metrics[2]
OgResult == report.sections[1].metrics[3]
H1Result == report.sections[2].metrics[1]
WordCountResult == report.sections[2].metrics[2]
HttpsResult == report.sections[3].metrics[1]
MobileResult == report.sections[3].metrics[2]
IndexResult == report.sections[3].metrics[3]
SitemapResult == report.sections[3].metrics[4]
LinksResult == report.sections[4].metrics[1]
SchemaResult == report.sections[4].metrics[2]

\* C11: the title rule in priority order: critical when the title does not
\* exist (whatever its length), else critical when length > 60, else warning
\* when length < 30, else good; so an existing title of length 30..60 is
\* good, 29 warning, 61 critical.
C11_TitleRule ==
    Returned =>
        LET exists == StatedFlag(<<"onpage", "title", "exists">>)
            len == StatedNum(<<"onpage", "title", "length">>)
        IN  /\ ~exists => TitleResult.status = "critical"
            /\ (exists /\ len > 60) => TitleResult.status = "critical"
            /\ (exists /\ len < 30) => TitleResult.status = "warning"
            /\ (exists /\ 30 <= len /\ len <= 60) => TitleResult.status = "good"
            /\ (exists /\ len = 29) => TitleResult.status = "warning"
            /\ (exists /\ len = 61) => TitleResult.status = "critical"

\* An existing title of exactly 60 characters has been judged good.
C11_Witness ==
    /\ Returned
    /\ StatedFlag(<<"onpage", "title", "exists">>)
    /\ StatedNum(<<"onpage", "title", "length">>) = 60
    /\ TitleResult.status = "good"

\* C12: the meta-description rule: critical when the description does not
\* exist, else warning when its length is below 100 or above 160, else good;
\* 100 and 160 are good and an existing description is never critical.
C12_MetaRule ==
    Returned =>
        LET exists == StatedFlag(<<"onpage", "meta", "exists">>)
            len == StatedNum(<<"onpage", "meta", "length">>)
        IN  /\ ~exists => MetaResult.status = "critical"
            /\ (exists /\ (len < 100 \/ len > 160)) => MetaResult.status = "warning"
            /\ (exists /\ 100 <= len /\ len <= 160) => MetaResult.status = "good"
            /\ exists => MetaResult.status # "critical"

\* An existing description of exactly 100 characters has been judged good.
C12_Witness ==
    /\ Returned
    /\ StatedFlag(<<"onpage", "meta", "exists">>)
    /\ StatedNum(<<"onpage", "meta", "length">>) = 100
    /\ MetaResult.status = "good"

\* C13: the main-headline rule: critical when h1Count is 0, warning when it
\* is greater than 1, good exactly when it is 1; a missing h1Count counts as
\* 0 and gives critical.
C13_H1Rule ==
    Returned =>
        LET h1 == StatedNum(<<"onpage", "headings", "h1Count">>)
        IN  /\ h1 = 0 => H1Result.status = "critical"
            /\ h1 > 1 => H1Result.status = "warning"
            /\ (H1Result.status = "good") <=> (h1 = 1)

\* A page stating no h1Count at all has been judged critical.
C13_Witness ==
    /\ Returned
    /\ Stated(data, <<"onpage", "headings">>).t = "object"
    /\ Stated(data, <<"onpage", "headings", "h1Count">>) = U
    /\ H1Result.status = "critical"

\* C14: the content-depth rule: critical for wordCount < 300, warning for
\* 300 <= wordCount < 600, good from 600; a missing wordCount counts as 0.
C14_WordCountRule ==
    Returned =>
        LET wc == StatedNum(<<"onpage", "content", "wordCount">>)
        IN  /\ wc < 300 => WordCountResult.status = "critical"
            /\ (300 <= wc /\ wc < 600) => WordCountResult.status = "warning"
            /\ wc >= 600 => WordCountResult.status = "good"

\* A page of exactly 300 words has been judged warning.
C14_Witness ==
    /\ Returned
    /\ StatedNum(<<"onpage", "content", "wordCount">>) = 300
    /\ WordCountResult.status = "warning"

ImageResultPresent == Len(report.sections[2].metrics) = 3

ImageResult == report.sections[2].metrics[3]

\* C15: the image-accessibility result is in Content strength if and only
\* if altStats.total > 0; when present it is warning if altStats.missing > 0
\* and good otherwise, never critical; missing altStats behaves as total 0,
\* missing 0 and the result is omitted.
C15_ImageRule ==
    Returned =>
        LET total == StatedNum(<<"onpage", "images", "altStats", "total">>)
            missing == StatedNum(<<"onpage", "images", "altStats", "missing">>)
        IN  /\ Len(report.sections[2].metrics) \in {2, 3}
            /\ ImageResultPresent <=> (total > 0)
            /\ ImageResultPresent =>
                  /\ ImageResult.title = "Image accessibility"
                  /\ ImageResult.status = (IF missing > 0 THEN "warning" ELSE "good")
            /\ \A i \in 1..2 : report.sections[2].metrics[i].title # "Image accessibility"
            /\ Stated(data, <<"onpage", "images", "altStats">>) = U => ~ImageResultPresent

\* A page with images, some lacking alt text, has an image result of
\* status warning.
C15_Witness ==
    /\ Returned
    /\ StatedNum(<<"onpage", "images", "altStats", "total">>) > 0
    /\ StatedNum(<<"onpage", "images", "altStats", "missing">>) > 0
    /\ ImageResultPresent
    /\ ImageResult.status = "warning"

\* C16: each of the seven binary rules is emitted once with two possible
\* statuses: Connection security (good iff https), Mobile friendliness (good
\* iff mobileFriendly) and Indexability (good iff not noindex) are otherwise
\* critical; Social preview (good iff hasOg), Sitemap (good iff sitemap),
\* Internal linking (good iff internalLinks > 5) and Structured data (good
\* iff hasSchema) are otherwise warning.
C16_BinaryRules ==
    Returned =>
        /\ Len(report.sections[1].metrics) = 3
        /\ Len(report.sections[3].metrics) = 4
        /\ Len(report.sections[4].metrics) = 2
        /\ HttpsResult.title = "Connection Security"
        /\ HttpsResult.status =
              (IF StatedFlag(<<"technical", "https">>) THEN "good" ELSE "critical")
        /\ MobileResult.title = "Mobile Friendliness"
        /\ MobileResult.status =
              (IF StatedFlag(<<"technical", "mobileFriendly">>) THEN "good" ELSE "critical")
        /\ IndexResult.title = "Search Visibility Lock"
        /\ IndexResult.status =
              (IF ~StatedFlag(<<"technical", "noindex">>) THEN "good" ELSE "critical")
        /\ OgResult.title = "Social Media Preview"
        /\ OgResult.status =
              (IF StatedFlag(<<"onpage", "og", "hasOg">>) THEN "good" ELSE "warning")
        /\ SitemapResult.title = "Google's Map (Sitemap)"
        /\ SitemapResult.status =
              (IF StatedFlag(<<"technical", "sitemap">>) THEN "good" ELSE "warning")
        /\ LinksResult.title = "Topic Connection"
        /\ LinksResult.status =
              (IF StatedNum(<<"trust", "internalLinks">>) > 5 THEN "good" ELSE "warning")
        /\ SchemaResult.title = "Rich Search Results"
        /\ SchemaResult.status =
              (IF StatedFlag(<<"trust", "hasSchema">>) THEN "good" ELSE "warning")

\* A page flagged noindex, all its other technical flags set, has a critical
\* indexability result beside good security, mobile and sitemap results.
C16_Witness ==
    /\ Returned
    /\ StatedFlag(<<"technical", "noindex">>)
    /\ IndexResult.status = "critical"
    /\ HttpsResult.status = "good"
    /\ MobileResult.status = "good"
    /\ SitemapResult.status = "good"

\* The growth-signal results of the report for the empty facts record.
GrowthReference == interpretSeoMetrics(Obj(<<>>)).sections[5].metrics

\* C17: the Growth signals section holds exactly two results, both unknown,
\* with texts that do not depend on the facts; no other result of the report
\* is unknown.
C17_GrowthSignals ==
    Returned =>
        /\ report.sections[5].name = "Growth signals"
        /\ Len(report.sections[5].metrics) = 2
        /\ \A i \in 1..2 : report.sections[5].metrics[i].status = "unknown"
        /\ report.sections[5].metrics = GrowthReference
        /\ \A s \in 1..4 : \A i \in 1..Len(report.sections[s].metrics) :
              report.sections[s].metrics[i].status # "unknown"

\* A report for a page on which every rule that reads the facts is good,
\* its growth results unknown all the same.
C17_Witness ==
    /\ Returned
    /\ data # Obj(<<>>)
    /\ CountStatus(AllResults, "good") = 12
    /\ CountStatus(report.sections[5].metrics, "unknown") = 2

\* C18: a facts record with a field or a whole sub-record absent gives the
\* report of the same record with that field set to its default (0, false,
\* {total: 0, missing: 0}); with no onpage.title object the title result is
\* critical and its explanation says the title is absent.
C18_MissingDefaults ==
    /\ (ncalls = 2 /\ Returned) => report = firstReport
    /\ (ncalls = 1 /\ Returned /\ Stated(data, <<"onpage", "title">>) = U) =>
          /\ TitleResult.status = "critical"
          /\ TitleResult.plainExplanation
                = "Your page doesn't have a title defined in the code."

\* The record with no title object and its completed twin have both been
\* interpreted, to the same report.
C18_Witness ==
    /\ ncalls = 2
    /\ Returned
    /\ Stated(firstData, <<"onpage", "title">>) = U
    /\ Stated(data, <<"onpage", "title", "exists">>) = Bool(FALSE)
    /\ report = firstReport
    /\ TitleResult.status = "critical"

\* C19: a call leaves the facts record as it was passed and writes nothing
\* but its report, which only the return produces; the sort reorders the
\* local list alone: the sections and the three category records of
\* seoBreakdown are the same before and after it and after the summary is
\* set, and they are what the report carries.
C19_SideEffectFree ==
    [][ /\ (pc \notin {"returned", "thrown"}) => data' = data
        /\ (pc # "return") => report' = report
        /\ (pc = "sort") => /\ sections' = sections
                            /\ seoBreakdown' = seoBreakdown
        /\ (pc = "setSummary") =>
              /\ sections' = sections
              /\ \A i \in 1..3 :
                    seoBreakdown'[CategoryKeys[i]] = seoBreakdown[CategoryKeys[i]]
        /\ (pc = "return") =>
              /\ report'.sections = sections
              /\ \A i \in 1..3 :
                    report'.seoBreakdown[CategoryKeys[i]]
                        = buildBreakdown(sections)[CategoryKeys[i]]
      ]_vars

\* A call has returned in which the sort moved the local list out of its
\* fixed order, while the report's category records are the computed ones.
C19_Witness ==
    /\ pc = "returned"
    /\ data = firstData
    /\ categories # buildCategories(seoBreakdown)
    /\ categories = sortCategories(buildCategories(seoBreakdown))
    /\ report.seoBreakdown.onPage = buildBreakdown(report.sections).onPage
    /\ report.seoBreakdown.summary.weakestArea # "onPage"

\* The keyword entries returned, as a set.
KeywordEntries == {keywords[i] : i \in 1..Len(keywords)}

\* C20: no score computation divides by zero or yields an undefined value:
\* calculateCat gives score 15 for the empty list and a score within 15..95
\* for any list, the aggregate score is an average over at least one result,
\* and every keyword entry has a count of at least one word and a density
\* that is a number between 0 and 100 percent; the empty text gives the
\* empty keyword list.
C20_NoUndefinedScore ==
    /\ (pc = "unitDone" /\ catInput = <<>>) => catResult.score = 15
    /\ (pc = "unitDone") => catResult.score \in 15..95
    /\ Returned => /\ Len(AllResults) > 0
                   /\ report.score \in 0..100
    /\ (pc = "keywordsDone" /\ text = <<>>) => keywords = <<>>
    /\ (pc = "keywordsDone") =>
          \A e \in KeywordEntries :
              /\ Len(filterWords(split(text))) >= 1
              /\ e.count.t = "number"
              /\ e.count.n >= 1
              /\ e.density.kind = "number"
              /\ e.density.hundredths \in 1..10000

\* What of C20 stands: no divisor is zero.
DivisorsNonZero ==
    /\ (pc = "unitDone" /\ catInput = <<>>) => catResult.score = 15
    /\ (pc = "unitDone") => catResult.score \in 15..95
    /\ Returned => /\ Len(AllResults) > 0
                   /\ report.score \in 0..100
    /\ (pc = "keywordsDone" /\ text = <<>>) => keywords = <<>>
    /\ (pc = "keywordsDone" /\ keywords # <<>>) => Len(filterWords(split(text))) >= 1
    /\ (pc = "keywordsDone") =>
          \A e \in KeywordEntries : e.density.kind \in {"number", "NaN"}

\* What of C20 does not: a density that is no number.
DensityIsNaN ==
    /\ pc = "keywordsDone"
    /\ \E e \in KeywordEntries : e.word = "constructor" /\ e.density.kind = "NaN"

\* C27: for every input the authority category counts 4 results of which at
\* most 2 pass, the two growth-signal results being unknown; its score is
\* 15, 25 or 50 and its priority is never good.
C27_AuthorityCeiling ==
    Returned =>
        /\ CatOf("authority").total = 4
        /\ CatOf("authority").passed <= 2
        /\ CatOf("authority").passed = CountStatus(report.sections[4].metrics, "good")
        /\ CountStatus(report.sections[5].metrics, "unknown") = 2
        /\ CatOf("authority").score \in {15, 25, 50}
        /\ CatOf("authority").score =
              (CASE CatOf("authority").passed = 0 -> 15
                 [] CatOf("authority").passed = 1 -> 25
                 [] CatOf("authority").passed = 2 -> 50)
        /\ CatOf("authority").priority # "good"

\* A page whose two trust results are both good: authority stops at 50.
C27_Witness ==
    /\ Returned
    /\ \A i \in 1..2 : report.sections[4].metrics[i].status = "good"
    /\ CatOf("authority").passed = 2
    /\ CatOf("authority").score = 50
    /\ CatOf("authority").priority = "warning"

\* C28: for every input the aggregate score lies between 26 and 96
\* inclusive.
C28_AggregateRange ==
    Returned => report.score \in 26..96

\* Both ends are met: a page with every rule at its worst scores 26 and a
\* page with every rule good, images included, scores 96.
C28_Witness ==
    /\ Returned
    /\ report.score = 96
    /\ CountStatus(AllResults, "good") = 12

C28_WitnessLow ==
    /\ Returned
    /\ report.score = 26
    /\ CountStatus(AllResults, "good") = 0

\* C29: weakestArea and strongestArea name two different categories, also
\* when two or all three category scores are equal.
C29_DistinctAreas ==
    Returned =>
        report.seoBreakdown.summary.weakestArea
            # report.seoBreakdown.summary.strongestArea

\* A report with all three category scores equal.
C29_Witness ==
    /\ Returned
    /\ MinScore = MaxScore
    /\ report.seoBreakdown.summary.weakestArea = "onPage"
    /\ report.seoBreakdown.summary.strongestArea = "authority"

\* The results of a report, in order.
ResultsOf(r) ==
    r.sections[1].metrics \o r.sections[2].metrics \o r.sections[3].metrics
    \o r.sections[4].metrics \o r.sections[5].metrics

\* critical < warning < good; an unknown result compares with itself only.
StatusRank(st) ==
    CASE st = "critical" -> 0
      [] st = "warning" -> 1
      [] st = "good" -> 2
      [] st = "unknown" -> 3

AtLeastAsHealthy(b, a) ==
    IF a.status = "unknown" \/ b.status = "unknown" THEN a.status = b.status
    ELSE StatusRank(b.status) >= StatusRank(a.status)

\* The two reports hold the same rules, and each is at least as healthy in
\* the second as in the first.
SecondNoWorse ==
    /\ \A k \in 1..5 :
          Len(report.sections[k].metrics) = Len(firstReport.sections[k].metrics)
    /\ \A i \in 1..Len(ResultsOf(report)) :
          AtLeastAsHealthy(ResultsOf(report)[i], ResultsOf(firstReport)[i])

\* C30: status monotonicity: of two records that emit the same rules, the
\* second no worse than the first in any rule, the second has an aggregate
\* score and three category scores no lower, and no more critical results.
C30_Monotone ==
    (pc = "pairDone" /\ SecondNoWorse) =>
        /\ report.score >= firstReport.score
        /\ \A i \in 1..3 :
              report.seoBreakdown[CategoryKeys[i]].score
                  >= firstReport.seoBreakdown[CategoryKeys[i]].score
        /\ CountStatus(ResultsOf(report), "critical")
              <= CountStatus(ResultsOf(firstReport), "critical")

\* A pair in which the second record turns warnings into good results and
\* criticals into warnings, and scores strictly higher.
C30_Witness ==
    /\ pc = "pairDone"
    /\ SecondNoWorse
    /\ \E i \in 1..Len(ResultsOf(report)) :
          /\ ResultsOf(firstReport)[i].status = "warning"
          /\ ResultsOf(report)[i].status = "good"
    /\ \E i \in 1..Len(ResultsOf(report)) :
          /\ ResultsOf(firstReport)[i].status = "critical"
          /\ ResultsOf(report)[i].status = "warning"
    /\ report.score > firstReport.score
    /\ report.seoBreakdown.onPage.score > firstReport.seoBreakdown.onPage.score
    /\ CountStatus(ResultsOf(report), "critical")
          < CountStatus(ResultsOf(firstReport), "critical")

\* C21: two calls on different records, their steps interleaved in any
\* order, each return the report the call returns when run alone, and each
\* throws exactly when it throws alone; at no point does a call hold a
\* section, a critical result or a category list that is not of its record.
C21_NoInterference ==
    (pc = "concurrent") =>
        \A i \in Invocations :
            LET f == frames[i]
                alone == buildSections(f.data)
            IN  /\ (f.pc = "returned") =>
                      /\ ~interpretThrows(f.data)
                      /\ f.report = interpretSeoMetrics(f.data)
                /\ (f.pc = "thrown") => interpretThrows(f.data)
                /\ \A k \in 1..Len(f.sections) : f.sections[k] = alone[k]
                /\ (f.pc \in {"breakdown", "sort", "setSummary", "return", "returned"}) =>
                      f.criticalMetris = collectCritical(alone)
                /\ (f.pc \in {"setSummary", "return", "returned"}) =>
                      f.categories = sortCategories(buildCategories(buildBreakdown(alone)))

\* Both calls have returned, each after steps taken in the middle of the
\* other, with different reports.
C21_Witness ==
    /\ pc = "concurrent"
    /\ interleaved
    /\ \A i \in Invocations : frames[i].pc = "returned"
    /\ frames[1].data # frames[2].data
    /\ frames[1].report # frames[2].report
    /\ frames[2].report = interpretSeoMetrics(frames[2].data)

HasReport(r) == "report" \in DOMAIN r

\* C22: a response holds a report exactly when its status is 'ok'.  A body
\* without url is answered 'error' with HTTP 400 before any fetch; a page
\* fetch that throws or is not OK is answered 'error' with HTTP 500 and no
\* report.  interpretSeoMetrics is called only after a successful fetch, at
\* most once, on the extracted onpage, technical and trust facts; a failed
\* sitemap probe sets sitemap to false and the request still succeeds.
C22_RouteResponses ==
    (pc = "route") =>
        /\ (rpc = "done") = (response.status # "none")
        /\ (response.status # "none") =>
              /\ response.status \in {"ok", "error"}
              /\ HasReport(response) = (response.status = "ok")
        /\ (rpc = "done" /\ request.json = "valid" /\ request.url \in {U, Null, Str("")}) =>
              /\ response.status = "error"
              /\ response.http = 400
              /\ nfetch = 0
        /\ (outcomes.fetch \in {"throws", "notOk", "textThrows"}) =>
              /\ response.status = "error"
              /\ response.http = 500
              /\ ~HasReport(response)
              /\ ninterpret = 0
        /\ ninterpret <= 1
        /\ nfetch <= 1
        /\ (ninterpret = 1) => outcomes.fetch = "ok" /\ nfetch = 1
        /\ (response.status = "ok") =>
              /\ ninterpret = 1
              /\ response.http = 200
              /\ response.onpage = analyzeOnPage(page)
              /\ response.trust = analyzeTrust(page)
              /\ response.report
                    = interpretSeoMetrics(PageWith(response.onpage, response.technical,
                                                   response.trust))
        /\ (outcomes.sitemap \in {"rejects", "404"}) =>
              /\ response.status = "ok"
              /\ response.technical.o.sitemap = Bool(FALSE)

\* A request whose page was fetched and whose sitemap probe was rejected:
\* answered 'ok' with a report that warns about the sitemap.
C22_Witness ==
    /\ pc = "route"
    /\ rpc = "done"
    /\ outcomes.sitemap = "rejects"
    /\ request.url = Str("example.com")
    /\ response.status = "ok"
    /\ response.url = "https://example.com"
    /\ response.report.sections[3].metrics[4].status = "warning"

\* A body without url, answered with HTTP 400 and without a fetch.
C22_WitnessNoUrl ==
    /\ pc = "route"
    /\ rpc = "done"
    /\ request.json = "valid"
    /\ request.url = U
    /\ response.http = 400
    /\ nfetch = 0

\* Both requests of the duel were answered with a report.
BothSucceeded == \A side \in Sides : requests[side].state = "ok"

\* A request is sent in this step.
Sends(side) == requests[side].state # "pending" /\ requests'[side].state = "pending"

\* startDuel passes its validation in this step.
Starts == ~isLoading /\ isLoading'

\* A request awaited by startDuel fails in this step.
FailsAwaited(side) ==
    isLoading /\ requests[side].state = "pending" /\ requests'[side].state = "failed"

\* C23: results are stored and showResults is true only when both requests
\* of the duel have succeeded, whichever came first, and then the two scores
\* stored are those of the two answers; a click with a url that is blank
\* after trimming sends no request; a failing request sets the error flag
\* and leaves results and showResults as they were.
C23_BothOrNothing ==
    /\ [](/\ showResults =>
                /\ results # Null
                /\ BothSucceeded
                /\ results.userScore = requests.user.score
                /\ results.compScore = requests.comp.score
          /\ (results # Null) => showResults
          /\ (\E side \in Sides : requests[side].state # "none") =>
                /\ trim(submitted.user) # ""
                /\ trim(submitted.comp) # "")
    /\ [][/\ \A side \in Sides : Sends(side) => Starts
          /\ Starts => /\ trim(userUrl) # "" /\ trim(compUrl) # ""
                       /\ \A side \in Sides : requests'[side].state = "pending"
                       /\ submitted' = [user |-> userUrl, comp |-> compUrl]
          /\ \A side \in Sides :
                FailsAwaited(side) => /\ error'
                                      /\ results' = results
                                      /\ showResults' = showResults
          /\ (showResults' /\ ~showResults) =>
                \E side \in Sides :
                    /\ requests[side].state = "pending"
                    /\ requests[OtherSide(side)].state = "ok"
                    /\ requests'[side].state = "ok"
         ]_vars

\* Results are shown for two sites with different scores, after a duel
\* that followed a failed one.
C23_Witness ==
    /\ pc = "page"
    /\ showResults
    /\ ~isLoading
    /\ BothSucceeded
    /\ results.userScore = 80 /\ results.compScore = 40
    /\ results.userWins
    /\ orphans = 1

\* The other end: a request has failed, the error flag is set, nothing is
\* shown, and the other request is still pending.
C23_WitnessFailure ==
    /\ pc = "page"
    /\ error
    /\ ~showResults
    /\ results = Null
    /\ requests.user.state = "failed"
    /\ requests.comp.state = "pending"

\* C24: once startDuel has passed validation and set isLoading, isLoading
\* returns to false, the analyses succeeding or failing, provided the
\* requests settle; and isLoading is never true while results are shown or
\* while the error flag is set.
C24_LoadingEnds ==
    /\ [](showResults \/ error => ~isLoading)
    /\ (isLoading ~> ~isLoading)

\* A duel has failed: the error flag is set and the page is not loading.
C24_Witness ==
    /\ pc = "page"
    /\ error
    /\ ~isLoading
    /\ \E side \in Sides : requests[side].state = "failed"
    /\ trim(submitted.user) # ""

\* C25 as stated: when startDuel begins, results are not shown and no
\* request of any duel is pending.
C25_NothingPending ==
    [][Starts => /\ ~showResults
                 /\ orphans = 0
                 /\ \A side \in Sides : requests[side].state # "pending"]_vars

\* C25: startDuel begins only while neither isLoading nor showResults is
\* true: never while an earlier startDuel is awaiting its requests, and
\* after results are shown only once resetDuel has hidden them.  isLoading
\* and showResults are never true together.  (A request of a duel that has
\* already failed may still be pending then; nothing awaits it.)
C25_OneDuelAwaited ==
    /\ [](~(isLoading /\ showResults))
    /\ [][/\ (\E side \in Sides : Sends(side)) => (~isLoading /\ ~showResults)
          /\ (isLoading /\ isLoading') => /\ submitted' = submitted
                                         /\ \A side \in Sides : ~Sends(side)
          /\ (showResults /\ ~showResults') => (results' = Null /\ userUrl' = "" /\ compUrl' = "")
          /\ (showResults /\ showResults') => requests' = requests
         ]_vars

\* A second duel is being awaited, begun after the first one failed with
\* one of its requests unanswered.
C25_Witness ==
    /\ pc = "page"
    /\ isLoading
    /\ ~showResults
    /\ orphans = 1
    /\ \A side \in Sides : requests[side].state = "pending"

\* C26: while results are shown, the url label of each score card is the
\* url submitted for the analysis whose score the card shows, whatever has
\* been typed into the two inputs since the results arrived.
C26_LabelsMatchScores ==
    (showResults /\ results # Null) =>
        \A side \in Sides : urlLabel(side) = formatUrl(submitted[side])

\* What holds of the labels: they follow the inputs.
LabelsFollowInputs ==
    /\ urlLabel("user") \in {formatUrl(userUrl), "example.com"}
    /\ urlLabel("comp") \in {formatUrl(compUrl), "competitor.com"}

\* Results of a.com are shown under the label b.com.
C26_Mislabelled ==
    /\ showResults
    /\ results # Null
    /\ submitted.user = "a.com"
    /\ urlLabel("user") = "b.com"

====
